---- MODULE Spec2Model ----
(***************************************************************************)
(* Long-text synthesis pipeline of ttsfm: the text splitter                *)
(* (ttsfm/utils.py), the queue server (server/api.py, server/handlers.py), *)
(* the provider adapters (ttsfm/client.py, ttsfm/async_client.py), the     *)
(* batch drivers and the WebSocket streaming handler                       *)
(* (ttsfm-web/websocket_handler.py).                                       *)
(*                                                                         *)
(* Each component is a state machine over its own variables; the          *)
(* specification of one component leaves the variables of the others      *)
(* untouched.                                                              *)
(***************************************************************************)
EXTENDS Integers, Sequences, FiniteSets, TLC

VARIABLES
    \* ---- text splitter (ttsfm/utils.py) ----
    text,            \* the input text, a sequence of characters
    max_length,      \* the max_length argument
    preserve_words,  \* the preserve_words argument
    chunks,          \* the list returned by split_text_by_length
    split_pc,        \* "call" before a call of split_text_by_length and "done"
                     \* after it; "call_long" before a call of
                     \* generate_speech_long_text, "combined" or "raised" after
    chunk_count,     \* metadata["chunks_combined"] of the combined response
    \* ---- queue server (server/api.py, server/handlers.py) ----
    queue,           \* asyncio.Queue: the queued task ids, head first
    putters,         \* asyncio.Queue._putters: handlers suspended in queue.put
    woken,           \* handlers whose putter future has been resolved
    unfinished,      \* asyncio.Queue._unfinished_tasks
    h_pc,            \* per request: position of handle_openai_speech
    h_resp,          \* per request: the HTTP response returned
    response_future, \* per request: state of task_data['response_future']
    w_pc,            \* position of the process_queue worker
    w_task,          \* the worker's local task_data (None before get)
    current_task,    \* TTSServer.current_task
    processing_lock, \* TTSServer.processing_lock: TRUE when held
    admitted,        \* the requests whose task was put on the queue, in the
                     \* order of the puts
    status_resp,     \* the last response of /api/queue-size (NoStatus before
                     \* the first)
    \* ---- provider adapter (ttsfm/client.py, ttsfm/async_client.py) ----
    c_kind,          \* "sync" (TTSClient) or "async" (AsyncTTSClient)
    max_retries,     \* the client's max_retries
    c_pc,            \* "call": about to send an HTTP request; "done": returned/raised
    c_attempt,       \* the loop variable `attempt` of _make_request
    c_adapter_left,  \* sync: retries the mounted urllib3 Retry still allows in this post
    c_posts,         \* session.post invocations so far
    c_calls,         \* HTTP requests sent to the provider so far
    c_failures,      \* provider answers so far that were failures
    c_last,          \* the provider's last answer
    c_result,        \* "none", "audio" or the exception raised
    c_generation,    \* form_data["generation"]: the uuid (by number of issue)
    c_tokens,        \* the generation tokens of the HTTP requests sent, in order
    \* ---- queue server task (server/handlers.py: process_tts_request) ----
    t_pc,            \* "send": about to call the provider; "wait": awaiting its
                     \* answer; "done": returned
    retry_count,     \* the local retry_count
    t_calls,         \* provider calls made so far (saturates at CallsCap)
    t_last,          \* the provider's last answer
    t_result,        \* the response returned: "none" until then
    t_rate_limited,  \* whether the provider answered 429 to a call of the task
    \* ---- batch drivers (generate_speech_batch of both clients) ----
    b_kind,          \* "sync" (TTSClient) or "async" (AsyncTTSClient)
    b_n,             \* number of chunks / requests of the batch
    b_plan,          \* per request: "ok" if the provider serves it, "fail" if
                     \* _make_request ends by raising for it
    b_status,        \* per request: "pending", "running", "ok" or "failed"
    b_order,         \* the requests in the order in which they completed
    b_sem,           \* AsyncTTSClient._semaphore: free slots
    b_pc,            \* "run" while the batch runs, "done" once it returned/raised
    b_outcome,       \* "none", "returned" or "raised"
    b_responses,     \* the list of responses built by the driver, returned when
                     \* b_outcome = "returned": element k names the request
                     \* whose audio it is
    b_raised,        \* the request whose exception was raised (0: none)
    \* ---- streaming session (WebSocketTTSHandler) ----
    s_data,          \* the generate_stream payload: text, chunk_size, valid
                     \* (whether voice and format name enum members)
    s_pc,            \* "idle", "task" (background task scheduled), "loop", "done"
    s_connected,     \* session_id in active_sessions
    s_chunks,        \* chunks of the text, once split
    s_i,             \* the loop index i of _generate_stream
    s_failures,      \* number of chunks whose generate_speech raised
    s_failed,        \* the chunk indices (0-based) whose generate_speech raised
    s_events,        \* events emitted for the request, in emission order
    \* ---- audio combination (ttsfm/audio.py) ----
    a_chunks,        \* the audio byte strings to combine, in order
    a_fmt,           \* format_type / the first response's format
    a_pydub,         \* whether `from pydub import AudioSegment` succeeded
    a_codec,         \* where the codec library fails in this call: "none",
                     \* "decode", "concat" or "export"
    a_via,           \* entry point: "chunks" (combine_audio_chunks) or
                     \* "responses" (combine_responses)
    a_pc,            \* "call" before the call, "done" after it
    a_raised,        \* exception that left the call ("none" if it returned)
    a_result,        \* bytes returned
    a_decoded,       \* number of AudioSegment.from_* calls made
    a_count,         \* metadata["chunks_combined"] of the combined response
    \* ---- streams of one WebSocket session (ttsfm-web/websocket_handler.py) ----
    request_count,   \* active_sessions[session_id]['request_count']
    background_tasks, \* the _generate_stream tasks started for the session, in
                     \* start order: [request_id, total_chunks, i, pc]
    \* ---- proxy pool (proxy/manager.py, server.py) ----
    session,         \* whether ProxyManager.session is set
    proxies,         \* ProxyManager.proxies
    lock,            \* ProxyManager.lock: 0 when free, else the task holding it
    p_pc,            \* position of every task that runs get_proxy or
                     \* refresh_proxies
    p_data,          \* per task, data['data']['proxies'] of the API answer
    p_result         \* per caller, what get_proxy returned ("pending" before)

splitVars == <<text, max_length, preserve_words, chunks, split_pc, chunk_count>>
queueVars == <<queue, putters, woken, unfinished, h_pc, h_resp, response_future,
               w_pc, w_task, current_task, processing_lock, admitted,
               status_resp>>

clientVars == <<c_kind, max_retries, c_pc, c_attempt, c_adapter_left, c_posts,
                c_calls, c_failures, c_last, c_result, c_generation, c_tokens>>

taskVars == <<t_pc, retry_count, t_calls, t_last, t_result, t_rate_limited>>

batchVars == <<b_kind, b_n, b_plan, b_status, b_order, b_sem, b_pc, b_outcome,
               b_responses, b_raised>>

streamVars == <<s_data, s_pc, s_connected, s_chunks, s_i, s_failures, s_failed,
                s_events>>

audioVars == <<a_chunks, a_fmt, a_pydub, a_codec, a_via, a_pc, a_raised,
               a_result, a_decoded, a_count>>

sessionVars == <<request_count, background_tasks>>

proxyVars == <<session, proxies, lock, p_pc, p_data, p_result>>

vars == <<splitVars, queueVars, clientVars, taskVars, batchVars, streamVars,
          audioVars, sessionVars, proxyVars>>

\* what an action of one component leaves alone: all the other components
otherThanSplit == <<queueVars, clientVars, taskVars, batchVars, streamVars, audioVars, sessionVars, proxyVars>>
otherThanQueue == <<splitVars, clientVars, taskVars, batchVars, streamVars, audioVars, sessionVars, proxyVars>>
otherThanClient == <<splitVars, queueVars, taskVars, batchVars, streamVars, audioVars, sessionVars, proxyVars>>
otherThanTask == <<splitVars, queueVars, clientVars, batchVars, streamVars, audioVars, sessionVars, proxyVars>>
otherThanBatch == <<splitVars, queueVars, clientVars, taskVars, streamVars, audioVars, sessionVars, proxyVars>>
otherThanStream == <<splitVars, queueVars, clientVars, taskVars, batchVars, audioVars, sessionVars, proxyVars>>
otherThanSession == <<splitVars, queueVars, clientVars, taskVars, batchVars, streamVars,
                      audioVars, proxyVars>>
otherThanProxy == <<splitVars, queueVars, clientVars, taskVars, batchVars, streamVars,
                    audioVars, sessionVars>>
otherThanAudio == <<splitVars, queueVars, clientVars, taskVars, batchVars, streamVars, sessionVars, proxyVars>>

(***************************************************************************)
(* Generic helpers                                                         *)
(***************************************************************************)
Min(a, b) == IF a <= b THEN a ELSE b
Max(a, b) == IF a >= b THEN a ELSE b

\* s[a..b] as Python's s[a-1:b] (1-based, inclusive, clipped to the string)
Slice(s, a, b) == SubSeq(s, a, Min(b, Len(s)))

(***************************************************************************)
(* Characters and strings.  A string is a sequence of characters; the      *)
(* alphabet has two letters, the blank and one sentence terminator.        *)
(***************************************************************************)
Letters == {"a", "b"}
Whitespace == {" "}
\* utils.py:213
_SENTENCE_TERMINATORS == {"."}
Alphabet == Letters \cup Whitespace \cup _SENTENCE_TERMINATORS

\* Bounds of the splitter's inputs
MaxTextLen == 6
MaxMaxLength == 3

RECURSIVE StringsUpTo(_)
StringsUpTo(n) ==
    IF n = 0 THEN {<<>>}
    ELSE LET shorter == StringsUpTo(n - 1)
         IN  shorter \cup {Append(s, c) : s \in {t \in shorter : Len(t) = n - 1}, c \in Alphabet}

\* the least index j >= from with s[j] in S (outside S if inside is FALSE),
\* Len(s) + 1 if there is none: the end of a scan over a run of characters
FirstIndex(s, from, S, inside) ==
    LET hits == {j \in from..Len(s) : (s[j] \in S) = inside}
    IN  IF hits = {} THEN Len(s) + 1 ELSE CHOOSE j \in hits : \A k \in hits : j <= k

\* str.lstrip() / str.rstrip() / str.strip()
LStrip(s) == SubSeq(s, FirstIndex(s, 1, Whitespace, FALSE), Len(s))

Reverse(s) == [k \in 1..Len(s) |-> s[Len(s) + 1 - k]]

RStrip(s) == SubSeq(s, 1, Len(s) + 1 - FirstIndex(Reverse(s), 1, Whitespace, FALSE))

Strip(s) == RStrip(LStrip(s))

\* str.split(): the maximal runs of non-whitespace characters, in order
RECURSIVE SplitWordsFrom(_, _, _)
SplitWordsFrom(s, word, acc) ==
    IF s = <<>> THEN (IF word = <<>> THEN acc ELSE Append(acc, word))
    ELSE IF Head(s) \in Whitespace
         THEN SplitWordsFrom(LStrip(s), <<>>, IF word = <<>> THEN acc ELSE Append(acc, word))
         ELSE LET end == FirstIndex(s, 1, Whitespace, TRUE)
              IN  SplitWordsFrom(SubSeq(s, end, Len(s)), word \o SubSeq(s, 1, end - 1), acc)

SplitWords(s) == SplitWordsFrom(s, <<>>, <<>>)

\* " ".join(parts)
RECURSIVE JoinSpace(_)
JoinSpace(parts) ==
    IF parts = <<>> THEN <<>>
    ELSE IF Len(parts) = 1 THEN parts[1]
    ELSE parts[1] \o <<" ">> \o JoinSpace(Tail(parts))

\* [c for c in parts if c.strip()]
RECURSIVE DropBlank(_)
DropBlank(parts) ==
    IF parts = <<>> THEN <<>>
    ELSE IF Strip(Head(parts)) = <<>> THEN DropBlank(Tail(parts))
    ELSE <<Head(parts)>> \o DropBlank(Tail(parts))

\* (mutant: the slice is one character too long, s[i:i+n+1])
RECURSIVE CharSlicesOffByOne(_, _)
CharSlicesOffByOne(s, n) ==
    IF s = <<>> THEN <<>>
    ELSE LET chunk == Slice(s, 1, n + 1)
             rest  == SubSeq(s, Min(n, Len(s)) + 1, Len(s))
         IN  (IF Strip(chunk) = <<>> THEN <<>> ELSE <<chunk>>) \o CharSlicesOffByOne(rest, n)

\* for i in range(0, len(s), n): chunk = s[i:i+n]; if chunk.strip(): append
RECURSIVE CharSlices(_, _)
CharSlices(s, n) ==
    IF s = <<>> THEN <<>>
    ELSE LET chunk == Slice(s, 1, n)
             rest  == SubSeq(s, Len(chunk) + 1, Len(s))
         IN  (IF Strip(chunk) = <<>> THEN <<>> ELSE <<chunk>>) \o CharSlices(rest, n)

(***************************************************************************)
(* ttsfm/utils.py: _split_into_sentences                                   *)
(***************************************************************************)
\* the inner while: first index j >= from with t[j] no terminator (Len+1 if none)
TerminatorRunEnd(t, j) == FirstIndex(t, j, _SENTENCE_TERMINATORS, FALSE)

\* (mutant: the terminators that end the sentence are not kept)
CloseSentenceWithoutTerminators(sentences, buffer) ==
    LET body == SubSeq(buffer, 1, Len(buffer) + 1
                    - FirstIndex(Reverse(buffer), 1, _SENTENCE_TERMINATORS, FALSE))
    IN  IF Strip(body) # <<>> THEN Append(sentences, Strip(body)) ELSE sentences
\* one sentence closed: "".join(buffer).strip(), appended when non-empty
CloseSentence(sentences, buffer) ==
    IF Strip(buffer) # <<>> THEN Append(sentences, Strip(buffer)) ELSE sentences

\* the outer while, at index i (1-based) with the current buffer and sentences
RECURSIVE SentenceLoop(_, _, _, _)
SentenceLoop(t, i, buffer, sentences) ==
    IF i > Len(t) THEN CloseSentence(sentences, buffer)
    ELSE IF t[i] \in _SENTENCE_TERMINATORS
         THEN LET j == TerminatorRunEnd(t, i + 1)
              IN  SentenceLoop(t, j, <<>>,
                               CloseSentence(sentences, buffer \o SubSeq(t, i, j - 1)))
         ELSE \* the characters up to the next terminator go to the buffer
              LET j == FirstIndex(t, i, _SENTENCE_TERMINATORS, TRUE)
              IN  SentenceLoop(t, j, buffer \o SubSeq(t, i, j - 1), sentences)

_split_into_sentences(t) == SentenceLoop(t, 1, <<>>, <<>>)

(***************************************************************************)
(* ttsfm/utils.py: _split_long_segment                                     *)
(***************************************************************************)
\* utils.py:247 and utils.py:310: max_length = max(1, min(max_length, 1000))
MaxChunkCap == 1000
\* (mutant: the cap is one character lower)
ClampMaxLengthBelowCap(n) == Max(1, Min(n, MaxChunkCap - 1))
ClampMaxLength(n) == Max(1, Min(n, MaxChunkCap))

\* the for loop over words; st = [parts, current_words, current_len]
RECURSIVE WordLoop(_, _, _)
WordLoop(words, n, st) ==
    IF words = <<>>
    THEN (IF st.current_words # <<>>
          THEN Append(st.parts, JoinSpace(st.current_words))
          ELSE st.parts)
    ELSE LET word      == Head(words)
             word_len  == Len(word)
             separator == IF st.current_words # <<>> THEN 1 ELSE 0
             proposed  == st.current_len + word_len + separator
             flushed   == IF st.current_words # <<>>
                          THEN Append(st.parts, JoinSpace(st.current_words))
                          ELSE st.parts
         IN  IF word_len > n
             THEN WordLoop(Tail(words), n,
                           [parts |-> flushed \o CharSlices(word, n),
                            current_words |-> <<>>, current_len |-> 0])
             ELSE IF proposed <= n
             THEN WordLoop(Tail(words), n,
                           [parts |-> st.parts,
                            current_words |-> Append(st.current_words, word),
                            current_len |-> proposed])
             ELSE WordLoop(Tail(words), n,
                           [parts |-> flushed,
                            current_words |-> <<word>>, current_len |-> word_len])

_split_long_segment(segment, n0) ==
    LET n == ClampMaxLength(n0)
    IN  IF Len(segment) <= n THEN <<segment>>
        ELSE IF SplitWords(segment) = <<>> THEN CharSlices(segment, n)
        ELSE WordLoop(SplitWords(segment), n,
                      [parts |-> <<>>, current_words |-> <<>>, current_len |-> 0])

(***************************************************************************)
(* ttsfm/utils.py: split_text_by_length                                    *)
(***************************************************************************)
\* the for loop over sentences; st = [chunks, current_segment, current_length]
RECURSIVE SegmentLoop(_, _, _)
SegmentLoop(sentences, n, st) ==
    IF sentences = <<>>
    THEN (IF st.current_segment # <<>>
          THEN Append(st.chunks, JoinSpace(st.current_segment))
          ELSE st.chunks)
    ELSE LET sentence         == Head(sentences)
             separator        == IF st.current_segment # <<>> THEN 1 ELSE 0
             candidate_length == st.current_length + separator + Len(sentence)
             flushed          == IF st.current_segment # <<>>
                                 THEN Append(st.chunks, JoinSpace(st.current_segment))
                                 ELSE st.chunks
         IN  IF sentence = <<>> THEN SegmentLoop(Tail(sentences), n, st)
             ELSE IF candidate_length <= n
             THEN SegmentLoop(Tail(sentences), n,
                              [chunks |-> st.chunks,
                               current_segment |-> Append(st.current_segment, sentence),
                               current_length |-> candidate_length])
             ELSE IF Len(sentence) > n
             THEN SegmentLoop(Tail(sentences), n,
                              [chunks |-> flushed \o _split_long_segment(sentence, n),
                               current_segment |-> <<>>, current_length |-> 0])
             ELSE SegmentLoop(Tail(sentences), n,
                              [chunks |-> flushed,
                               current_segment |-> <<sentence>>,
                               current_length |-> Len(sentence)])

\* (mutant: without the `if not text` test)
split_text_by_length_no_empty_test(t, n0, keep_words) ==
    LET n == ClampMaxLength(n0)
    IN  IF Len(t) <= n THEN <<t>>
        ELSE IF keep_words
             THEN DropBlank(SegmentLoop(_split_into_sentences(t), n,
                      [chunks |-> <<>>, current_segment |-> <<>>, current_length |-> 0]))
             ELSE DropBlank(CharSlices(t, n))
\* utils.py:301-354
split_text_by_length(t, n0, keep_words) ==
    LET n == ClampMaxLength(n0)
    IN  IF t = <<>> THEN <<>>
        ELSE IF Len(t) <= n THEN <<t>>
        ELSE IF keep_words
             THEN DropBlank(SegmentLoop(_split_into_sentences(t), n,
                      [chunks |-> <<>>, current_segment |-> <<>>, current_length |-> 0]))
             ELSE DropBlank(CharSlices(t, n))

(***************************************************************************)
(* The splitter as a state machine: one call on inputs drawn from the      *)
(* bounded sets.                                                           *)
(***************************************************************************)
SplitInputs ==
    /\ text \in StringsUpTo(MaxTextLen)
    /\ max_length \in 1..MaxMaxLength
    /\ preserve_words \in BOOLEAN
    /\ chunks = <<>>
    /\ split_pc = "call"
    /\ chunk_count = 0

SplitCall ==
    /\ split_pc = "call"
    /\ chunks' = split_text_by_length(text, max_length, preserve_words)
    /\ split_pc' = "done"
    /\ UNCHANGED <<text, max_length, preserve_words, chunk_count>>
    /\ UNCHANGED otherThanSplit

\* C1: every chunk returned by split_text_by_length has at most max_length
\* characters, for every text, max_length >= 1 and both preserve_words settings.
ChunksWithinMaxLength ==
    split_pc = "done" => \A k \in 1..Len(chunks) : Len(chunks[k]) <= max_length

SeqToSet(q) == {q[k] : k \in 1..Len(q)}

\* C1 witness: a text longer than max_length was split, with and without
\* preserve_words, and a word longer than max_length was cut into pieces
OversizedWordWasSplit ==
    /\ split_pc = "done"
    /\ preserve_words
    /\ Len(text) > max_length
    /\ Len(chunks) >= 3
    /\ \E w \in SeqToSet(SplitWords(text)) : Len(w) > max_length
    /\ \E k \in 1..Len(chunks) : Len(chunks[k]) = max_length

\* C2: with preserve_words true and no word longer than max_length, joining the
\* chunks with single spaces and splitting on whitespace gives exactly the
\* words of the text, in order.
WordsSurviveRoundTrip ==
    (/\ split_pc = "done"
     /\ preserve_words
     /\ \A w \in SeqToSet(SplitWords(text)) : Len(w) <= max_length)
        => SplitWords(JoinSpace(chunks)) = SplitWords(text)

\* C15: splitting the empty text returns the empty list, not a list with one
\* empty chunk, for every max_length and both preserve_words settings.
EmptyTextGivesNoChunk ==
    (split_pc = "done" /\ text = <<>>) => chunks = <<>>

\* C15 witness: the empty text was split without preserve_words
EmptyTextWasSplit ==
    /\ split_pc = "done" /\ text = <<>> /\ ~preserve_words
    /\ max_length = 1 /\ chunks = <<>>

\* C18: with preserve_words true, a whitespace-delimited word of the input of
\* at most max_length characters is never split: it appears intact as a word
\* of a single chunk.
ShortWordsStayWhole ==
    (split_pc = "done" /\ preserve_words)
        => \A w \in SeqToSet(SplitWords(text)) :
              Len(w) <= max_length
                 => \E k \in 1..Len(chunks) : w \in SeqToSet(SplitWords(chunks[k]))

(***************************************************************************)
(* Long texts.  max_length is capped at 1000, so texts around and beyond   *)
(* the cap are drawn from a family described by run lengths: words of      *)
(* word_len letters separated by gap_len separator characters, cut to      *)
(* text_len characters.  They pass through split_text_by_length directly   *)
(* or through TTSClient.generate_speech_long_text with every chunk         *)
(* synthesized and auto_combine set.                                       *)
(***************************************************************************)
\* Bound: longest run of separators between two words
MaxGap == 2
\* the long text of the 2,500-character scenario
LongTextLen == 2500

WordsText(word_len, gap_len, separator, text_len) ==
    [k \in 1..text_len |->
        IF ((k - 1) % (word_len + gap_len)) < word_len THEN "a" ELSE separator]

WordLens == {0, 499, 624, 1000, LongTextLen}
TextLens == {1, MaxChunkCap, MaxChunkCap + 1, LongTextLen}
LongTexts ==
    {WordsText(w, g, sep, n) : w \in WordLens, g \in 1..MaxGap,
                               sep \in {" ", "."}, n \in TextLens}
MaxLengths == {MaxChunkCap - 1, MaxChunkCap, MaxChunkCap + 1, LongTextLen}

LongInputs ==
    /\ text \in LongTexts
    /\ max_length \in MaxLengths
    /\ preserve_words \in BOOLEAN
    /\ chunks = <<>>
    /\ split_pc \in {"call", "call_long"}
    /\ chunk_count = 0

\* utils.py:357-373: on the characters of the alphabet (no markup, no quotes)
\* sanitize_text collapses every whitespace run to one blank and strips
sanitize_text(t) == JoinSpace(SplitWords(t))

\* client.py:277-331 with client.py:246-275 and audio.py:99-130:
\* generate_speech_long_text(text, max_length, preserve_words,
\* auto_combine=True) when every chunk is synthesized; without chunks
\* generate_speech_batch raises ValueError
\* (mutant: the combined response counts itself)
chunks_combined_one(responses) == 1
\* audio.py:118: "chunks_combined": len(responses)
chunks_combined(responses) == Len(responses)

generate_speech_long_text_call ==
    /\ split_pc = "call_long"
    /\ LET split == split_text_by_length(sanitize_text(text), max_length, preserve_words)
       IN  /\ chunks' = split
           /\ IF split = <<>>
              THEN split_pc' = "raised" /\ UNCHANGED chunk_count
              ELSE split_pc' = "combined" /\ chunk_count' = chunks_combined(split)
    /\ UNCHANGED <<text, max_length, preserve_words>>
    /\ UNCHANGED otherThanSplit

\* C14 (as stated): for every non-empty text and every max_length >= 1 with
\* len(text) <= max_length, split_text_by_length returns exactly [text].
TextWithinMaxLengthIsOneChunk ==
    (split_pc = "done" /\ text # <<>> /\ max_length >= 1 /\ Len(text) <= max_length)
        => chunks = <<text>>

\* C14 (amended): max_length is capped at 1000: a non-empty text with
\* len(text) <= max_length and len(text) <= 1000 is returned as [text]; a text
\* of more than 1000 characters is split into chunks of at most 1000
\* characters also when max_length is larger.
TextWithinCappedMaxLengthIsOneChunk ==
    /\ (/\ split_pc = "done" /\ text # <<>> /\ max_length >= 1
        /\ Len(text) <= max_length /\ Len(text) <= MaxChunkCap)
          => chunks = <<text>>
    /\ (split_pc = "done" /\ Len(text) > MaxChunkCap)
          => (chunks # <<text>> /\ \A k \in 1..Len(chunks) : Len(chunks[k]) <= MaxChunkCap)

\* C14 witness: a text of several words, exactly 1000 characters long, came
\* back as one chunk under a larger max_length
ThousandCharactersInOneChunk ==
    /\ split_pc = "done" /\ Len(text) = MaxChunkCap /\ max_length > MaxChunkCap
    /\ preserve_words /\ Len(SplitWords(text)) > 1
    /\ chunks = <<text>>

\* C17 (as stated): any text of 2,500 characters split with max_length=1000 and
\* preserve_words=true gives exactly 3 chunks of at most 1000 characters, and
\* the combined batch result reports a chunk count of 3.
LongTextGivesThreeChunks ==
    (/\ split_pc \in {"done", "combined", "raised"}
     /\ Len(text) = LongTextLen /\ max_length = MaxChunkCap /\ preserve_words)
        => /\ Len(chunks) = 3
           /\ \A k \in 1..Len(chunks) : Len(chunks[k]) <= MaxChunkCap
           /\ split_pc # "done" => (split_pc = "combined" /\ chunk_count = 3)

OnlyLetters(t) == \A k \in 1..Len(t) : t[k] \in Letters

\* C17 (amended): a text of 2,500 characters split with max_length=1000 and
\* preserve_words=true gives chunks of at most 1000 characters each; they are
\* exactly 3 when the text has neither whitespace nor sentence terminators, and
\* can be more (words or sentences that do not pack) or fewer (whitespace is
\* dropped) otherwise.  The combined result of generate_speech_long_text
\* reports as chunk count the number of chunks of the sanitized text, and the
\* call raises ValueError when there is none.
LongTextChunksWithinCap ==
    (/\ split_pc \in {"done", "combined", "raised"}
     /\ Len(text) = LongTextLen /\ max_length = MaxChunkCap /\ preserve_words)
        => /\ \A k \in 1..Len(chunks) : Len(chunks[k]) <= MaxChunkCap
           /\ OnlyLetters(text) => Len(chunks) = 3
           /\ split_pc = "combined" => (chunk_count = Len(chunks) /\ chunks # <<>>)
           /\ split_pc = "raised" => (chunks = <<>> /\ SplitWords(text) = <<>>)
           /\ (split_pc # "done" /\ OnlyLetters(text))
                 => (split_pc = "combined" /\ chunk_count = 3)

\* C17 witness: 2,500 letters went through generate_speech_long_text and the
\* combined result reports 3 chunks
LongWordCombinedFromThreeChunks ==
    /\ split_pc = "combined" /\ Len(text) = LongTextLen /\ OnlyLetters(text)
    /\ max_length = MaxChunkCap /\ preserve_words
    /\ chunk_count = 3

(***************************************************************************)
(* Queue server: server/api.py (TTSServer) and server/handlers.py.         *)
(* Coroutines run on one event loop: the code between two awaits that      *)
(* suspend is one atomic step.                                             *)
(***************************************************************************)
\* Bounds: the configured max_queue_size and the number of client requests
max_queue_size == 2
NumRequests == 3

Requests == 1..NumRequests
None == 0

\* (mutant: the capacity test is off by one)
FullOffByOne(q) == Len(q) > max_queue_size
\* asyncio.Queue.full() / qsize()
Full(q) == Len(q) >= max_queue_size
QSize(q) == Len(q)

NoResponse == [status |-> 0, error |-> "", queue_size |-> 0]
\* no /api/queue-size response yet
NoStatus == [queue_size |-> 0 - 1, max_queue_size |-> 0]

QueueStart ==
    /\ queue = <<>> /\ putters = <<>> /\ woken = {} /\ unfinished = 0
    /\ h_pc = [h \in Requests |-> "new"]
    /\ h_resp = [h \in Requests |-> NoResponse]
    /\ response_future = [h \in Requests |-> "none"]
    /\ w_pc = "get" /\ w_task = None /\ current_task = None
    /\ processing_lock = FALSE
    /\ admitted = <<>>
    /\ status_resp = NoStatus

\* Queue.put_nowait(item): append, count the unfinished task (handlers.py:168)
\* (mutant: the queue built without maxsize never makes put wait)
PutAllowedNoMaxsize(q, item) == TRUE
\* asyncio.Queue(maxsize=max_queue_size).put: room for the item, or wait
PutAllowed(q, item) == ~Full(q)

\* handlers.py:97-122: the rate-limit check, the queue.full() check and the
\* suspension in `await request.json()`.  rate_limited is the outcome of
\* _is_rate_limited(client_ip), which depends on the clock and the client's
\* request history.  The requests are numbered in the order in which their
\* handlers start.
handle_openai_speech_check(h, rate_limited) ==
    /\ h_pc[h] = "new"
    /\ \A g \in 1..(h - 1) : h_pc[g] # "new"
    /\ IF rate_limited
       THEN /\ h_pc' = [h_pc EXCEPT ![h] = "done"]
            /\ h_resp' = [h_resp EXCEPT ![h] =
                    [status |-> 429, error |-> "rate_limit", queue_size |-> 0]]
       ELSE IF Full(queue)
       THEN /\ h_pc' = [h_pc EXCEPT ![h] = "done"]
            /\ h_resp' = [h_resp EXCEPT ![h] =
                    [status |-> 429, error |-> "queue_full", queue_size |-> QSize(queue)]]
       ELSE /\ h_pc' = [h_pc EXCEPT ![h] = "json"]
            /\ UNCHANGED h_resp
    /\ UNCHANGED <<queue, putters, woken, unfinished, response_future,
                   w_pc, w_task, current_task, processing_lock, admitted>>
    /\ UNCHANGED status_resp
    /\ UNCHANGED otherThanQueue

\* (mutant: the task is created and put on the queue before the body is
\* validated)
TaskCreatedBeforeValidation(body) == TRUE
\* handlers.py:122-168: the task is created and put on the queue only after
\* request.json() succeeded and the body passed the test for input and voice
TaskCreated(body) == body = "ok"

\* handlers.py:122-168: the body has arrived; body is "bad_json" (JSONDecodeError),
\* "missing" (no input or voice) or "ok".  With a valid body the task is created
\* and `await queue.put(task_data)` runs: put_nowait if there is room, otherwise
\* the handler is suspended as a putter.
handle_openai_speech_enqueue(h, body) ==
    /\ h_pc[h] = "json"
    /\ IF TaskCreated(body)
       THEN /\ response_future' = [response_future EXCEPT ![h] = "pending"]
            /\ IF PutAllowed(queue, h)
               THEN /\ queue' = Append(queue, h)
                    /\ admitted' = Append(admitted, h)
                    /\ unfinished' = unfinished + 1
                    /\ UNCHANGED putters
               ELSE /\ putters' = Append(putters, h)
                    /\ UNCHANGED <<queue, unfinished, admitted>>
       ELSE UNCHANGED <<queue, putters, unfinished, response_future, admitted>>
    /\ IF body # "ok"
       THEN /\ h_pc' = [h_pc EXCEPT ![h] = "done"]
            /\ h_resp' = [h_resp EXCEPT ![h] =
                    [status |-> 400, error |-> body, queue_size |-> 0]]
       ELSE /\ h_pc' = [h_pc EXCEPT ![h] =
                    IF PutAllowed(queue, h) THEN "await_future" ELSE "put_wait"]
            /\ UNCHANGED h_resp
    /\ UNCHANGED <<woken, w_pc, w_task, current_task, processing_lock>>
    /\ UNCHANGED status_resp
    /\ UNCHANGED otherThanQueue

\* asyncio.Queue.put resumed after its putter future was resolved: the
\* `while self.full()` loop is re-evaluated (handlers.py:168)
queue_put_resume(h) ==
    /\ h_pc[h] = "put_wait"
    /\ h \in woken
    /\ woken' = woken \ {h}
    /\ IF PutAllowed(queue, h)
       THEN /\ queue' = Append(queue, h)
            /\ admitted' = Append(admitted, h)
            /\ unfinished' = unfinished + 1
            /\ h_pc' = [h_pc EXCEPT ![h] = "await_future"]
            /\ UNCHANGED putters
       ELSE /\ putters' = Append(putters, h)
            /\ UNCHANGED <<queue, unfinished, h_pc, admitted>>
    /\ UNCHANGED <<h_resp, response_future, w_pc, w_task, current_task, processing_lock>>
    /\ UNCHANGED status_resp
    /\ UNCHANGED otherThanQueue

\* handlers.py:172-191: `return await response_future`; an exception set on the
\* future is caught by `except Exception` and answered with status 500
handle_openai_speech_respond(h) ==
    /\ h_pc[h] = "await_future"
    /\ response_future[h] \in {"result", "exception"}
    /\ h_pc' = [h_pc EXCEPT ![h] = "done"]
    /\ h_resp' = [h_resp EXCEPT ![h] =
            [status |-> IF response_future[h] = "result" THEN 200 ELSE 500,
             error |-> IF response_future[h] = "result" THEN "" ELSE "exception",
             queue_size |-> 0]]
    /\ UNCHANGED <<queue, putters, woken, unfinished, response_future,
                   w_pc, w_task, current_task, processing_lock, admitted>>
    /\ UNCHANGED status_resp
    /\ UNCHANGED otherThanQueue

\* (mutant: the queue hands out its newest item)
get_nowait_newest(q) == [item |-> q[Len(q)], rest |-> SubSeq(q, 1, Len(q) - 1)]
\* api.py:140, asyncio.Queue.get_nowait: the oldest item leaves the queue
get_nowait(q) == [item |-> Head(q), rest |-> Tail(q)]

\* api.py:140-149: `task_data = await self.queue.get()` (get_nowait wakes the
\* next putter), the rate-limiting sleep when the last request was less than
\* min_request_interval ago (must_sleep), then the lock and current_task
process_queue_get(must_sleep) ==
    /\ w_pc = "get"
    /\ queue # <<>>
    /\ w_task' = get_nowait(queue).item
    /\ queue' = get_nowait(queue).rest
    /\ IF putters # <<>>
       THEN /\ woken' = woken \cup {Head(putters)}
            /\ putters' = Tail(putters)
       ELSE UNCHANGED <<woken, putters>>
    /\ IF must_sleep
       THEN /\ w_pc' = "sleep"
            /\ UNCHANGED <<current_task, processing_lock>>
       ELSE /\ w_pc' = "processing"
            /\ processing_lock' = TRUE
            /\ current_task' = get_nowait(queue).item
    /\ UNCHANGED <<unfinished, h_pc, h_resp, response_future, admitted>>
    /\ UNCHANGED status_resp
    /\ UNCHANGED otherThanQueue

\* api.py:146-152: the sleep is over; take the lock, set current_task and
\* suspend in process_tts_request
process_queue_wake ==
    /\ w_pc = "sleep"
    /\ ~processing_lock
    /\ processing_lock' = TRUE
    /\ current_task' = w_task
    /\ w_pc' = "processing"
    /\ UNCHANGED <<queue, putters, woken, unfinished, h_pc, h_resp,
                   response_future, w_task, admitted>>
    /\ UNCHANGED status_resp
    /\ UNCHANGED otherThanQueue

\* (mutant: task_done is called after set_result, not in the finally clause)
task_done_after_result(unfinished_tasks, outcome) ==
    IF outcome = "result" THEN unfinished_tasks - 1 ELSE unfinished_tasks
\* api.py:160-163: `finally: ... self.queue.task_done()`
task_done(unfinished_tasks, outcome) == unfinished_tasks - 1

\* api.py:152-163: process_tts_request returned (outcome "result") or raised
\* (outcome "exception"); the future is completed, current_task cleared,
\* task_done() called and the lock released
process_queue_finish(outcome) ==
    /\ w_pc = "processing"
    /\ response_future' = [response_future EXCEPT ![w_task] = outcome]
    /\ current_task' = None
    /\ unfinished' = task_done(unfinished, outcome)
    /\ processing_lock' = FALSE
    /\ w_task' = None
    /\ w_pc' = "get"
    /\ UNCHANGED <<queue, putters, woken, h_pc, h_resp, admitted>>
    /\ UNCHANGED status_resp
    /\ UNCHANGED otherThanQueue

\* (mutant: the size is found by taking the tasks out of the queue)
QSizeByDraining(q) == [queue_size |-> Len(q), rest |-> <<>>]
\* handlers.py:287: queue.qsize() counts the items and leaves them in place
QSizeInPlace(q) == [queue_size |-> Len(q), rest |-> q]

\* handlers.py:284-293, api.py:73-75: GET /api/queue-size answers with
\* queue.qsize() and queue.maxsize
handle_queue_size ==
    /\ status_resp' = [queue_size |-> QSizeInPlace(queue).queue_size,
                       max_queue_size |-> max_queue_size]
    /\ status_resp' # status_resp
    /\ queue' = QSizeInPlace(queue).rest
    /\ UNCHANGED <<putters, woken, unfinished, h_pc, h_resp, response_future,
                   w_pc, w_task, current_task, processing_lock, admitted>>
    /\ UNCHANGED otherThanQueue

\* tasks taken from the queue and not yet finished
Processing == IF w_task # None THEN 1 ELSE 0


\* C3 (as stated): at most one task is being processed, and queued plus
\* processed tasks never exceed max_queue_size.
QueuedPlusActiveWithinMax ==
    /\ Processing <= 1
    /\ Len(queue) + Processing <= max_queue_size

\* C3 (amended): at most one task is being processed and at most
\* max_queue_size tasks are queued; the task the worker has taken no longer
\* occupies a queue slot, so queued plus processed is at most max_queue_size + 1.
QueuedWithinMaxActiveWithinCap ==
    /\ Processing <= 1
    /\ Cardinality({h \in Requests : current_task = h}) <= 1
    /\ Len(queue) <= max_queue_size
    /\ Len(queue) + Processing <= max_queue_size + 1
    /\ unfinished = Len(queue) + Processing

\* C3 witness: the queue is full while the worker processes a further task
QueueFullWhileProcessing ==
    /\ Len(queue) = max_queue_size
    /\ w_pc = "processing"
    /\ current_task \in Requests

\* a request is being answered by the first step of handle_openai_speech
Arrives(h) == h_pc[h] = "new" /\ h_pc'[h] # "new"

\* C4 (as stated): once max_queue_size requests have been admitted and none of
\* them has completed, the next request is rejected with 429 and reports
\* queue_size = max_queue_size.
RejectedAfterMaxAdmitted ==
    [][\A h \in Requests :
         (Arrives(h) /\ unfinished >= max_queue_size)
            => (h_pc'[h] = "done" /\ h_resp'[h].status = 429
                /\ (h_resp'[h].error = "queue_full"
                      => h_resp'[h].queue_size = max_queue_size))]_vars

\* C4 (amended): a request that arrives while max_queue_size tasks are waiting
\* in the queue (the task taken by the worker not counted) is rejected at once
\* with 429, without touching the queue, and a queue-full rejection reports
\* queue_size = max_queue_size.
RejectedWhenQueueFull ==
    [][\A h \in Requests :
         (Arrives(h) /\ Len(queue) = max_queue_size)
            => (/\ h_pc'[h] = "done"
                /\ h_resp'[h].status = 429
                /\ h_resp'[h].error \in {"queue_full", "rate_limit"}
                /\ (h_resp'[h].error = "queue_full"
                      => h_resp'[h].queue_size = max_queue_size)
                /\ queue' = queue /\ putters' = putters)]_vars

\* C4 witness: a request was rejected because the queue was full
SomeRequestRejectedQueueFull ==
    \E h \in Requests :
        /\ h_pc[h] = "done"
        /\ h_resp[h] = [status |-> 429, error |-> "queue_full",
                        queue_size |-> max_queue_size]

\* C5: a request handler never blocks waiting for queue space: whenever
\* handle_openai_speech reaches its enqueue step the queue has a free slot, so
\* no handler is ever suspended inside queue.put.
HandlerNeverBlocksOnPut ==
    \A h \in Requests : h_pc[h] # "put_wait"

\* a request is being answered with a rejection (400 or 429)
Rejected(h) == h_pc[h] # "done" /\ h_pc'[h] = "done" /\ h_resp'[h].status \in {400, 429}

StatusReadMutatesNothing ==
    [][status_resp' # status_resp
          => /\ queue' = queue /\ putters' = putters /\ unfinished' = unfinished
             /\ w_task' = w_task /\ current_task' = current_task /\ w_pc' = w_pc
             /\ processing_lock' = processing_lock
             /\ response_future' = response_future
             /\ h_pc' = h_pc /\ h_resp' = h_resp
             /\ status_resp' = [queue_size |-> Len(queue),
                                max_queue_size |-> max_queue_size]]_vars

\* C35 witness: the status was read while the queue was full and a task was in
\* progress, and the queue is still full
StatusReadWhileQueueFull ==
    /\ status_resp.queue_size = max_queue_size
    /\ Len(queue) = max_queue_size
    /\ w_pc = "processing" /\ current_task \in Requests

Completed == {"result", "exception"}

Started == Len(admitted) - Len(queue)

\* C29: admitted tasks are served in FIFO order of admission: the tasks
\* waiting are the last admitted ones in admission order, the task the worker
\* holds is the oldest admitted task not yet finished, and every task admitted
\* before it has reached a terminal state (its future has a result or an
\* exception).
ServedInAdmissionOrder ==
    /\ queue = SubSeq(admitted, Started + 1, Len(admitted))
    /\ w_task # None
          => /\ Started >= 1 /\ w_task = admitted[Started]
             /\ \A k \in 1..(Started - 1) :
                   response_future[admitted[k]] \in {"result", "exception"}
    /\ w_task = None
          => \A k \in 1..Started :
                response_future[admitted[k]] \in {"result", "exception"}

\* C29 witness: the worker processes the second admitted task while a third
\* waits, the first being finished
SecondTaskStartedAfterFirstFinished ==
    /\ Len(admitted) = 3 /\ Started = 2
    /\ w_pc = "processing" /\ w_task = admitted[2]
    /\ queue = <<admitted[3]>>
    /\ response_future[admitted[1]] \in {"result", "exception"}

\* C30: no lock is held across a suspension point: while the worker is
\* suspended awaiting the provider response of process_tts_request it does not
\* hold processing_lock.
NoLockHeldWhileAwaitingProvider ==
    w_pc = "processing" => ~processing_lock

(***************************************************************************)
(* Provider adapter: TTSClient._make_request (ttsfm/client.py) and         *)
(* AsyncTTSClient._make_request (ttsfm/async_client.py).                   *)
(*                                                                         *)
(* The provider's answer to one HTTP request is one of                     *)
(*   "ok"      status 200 with audio bytes                                 *)
(*   "empty"   status 200 with zero bytes                                  *)
(*   "s503"    a status of the adapter's status_forcelist (429, 500, 502,  *)
(*             503, 504)                                                   *)
(*   "s418"    another status that is neither 200 nor 400/401/403/404      *)
(*   "s404"    400, 401, 403 or 404                                        *)
(*   "timeout" no answer within the timeout                                *)
(*   "conn"    a connection error                                          *)
(* and, for an error status, its body is JSON or not (json_body).          *)
(***************************************************************************)
\* Bound on the max_retries the clients are built with (default 3)
MaxRetriesBound == 3

Answers == {"ok", "empty", "s503", "s418", "s404", "timeout", "conn"}
\* client.py:464, async_client.py:492: `in [400, 401, 403, 404]`
NoRetryStatuses == {"s404"}
\* client.py:105-114: Retry(total=max_retries, status_forcelist=[429, 500, 502,
\* 503, 504], allowed_methods=[..., "POST"]) mounted on the session: these
\* answers are retried inside session.post
AdapterRetried == {"s503", "timeout", "conn"}
StatusAnswers == {"s503", "s418", "s404"}
TransportFailures == {"timeout", "conn"}

\* uuid.uuid4(): a token that differs from the `issued` tokens made before
uuid4(issued) == issued + 1

ClientStart ==
    /\ c_kind \in {"sync", "async"}
    /\ max_retries \in 0..MaxRetriesBound
    /\ c_pc = "call"
    /\ c_attempt = 0
    /\ c_adapter_left = max_retries
    /\ c_posts = 1
    /\ c_calls = 0
    /\ c_failures = 0
    /\ c_last = "none"
    /\ c_result = "none"
    /\ c_generation = uuid4(0)
    /\ c_tokens = <<>>

\* the request ends: _make_request returns or raises
ClientFinish(result) ==
    /\ c_pc' = "done"
    /\ c_result' = result
    /\ UNCHANGED <<c_attempt, c_adapter_left, c_posts>>

\* `continue`: the next iteration of `for attempt in range(self.max_retries + 1)`
\* starts a new post; on the last iteration the exception is raised instead
\* (client.py:468-496, async_client.py:496-518)
RetryOrRaise(exception) ==
    IF c_attempt = max_retries
    THEN ClientFinish(exception)
    ELSE /\ c_attempt' = c_attempt + 1
         /\ c_adapter_left' = max_retries
         /\ c_posts' = c_posts + 1
         /\ UNCHANGED <<c_pc, c_result>>

\* client.py:105-114, 437-444: the answer is retried by the mounted adapter while
\* Retry.total allows; then session.post raises RetryError / ConnectionError
SyncAdapterRetry(exception) ==
    IF c_adapter_left > 0
    THEN /\ c_adapter_left' = c_adapter_left - 1
         /\ UNCHANGED <<c_pc, c_result, c_attempt, c_posts>>
    ELSE RetryOrRaise(exception)

\* client.py:427-499: one HTTP request of TTSClient._make_request and the code
\* that runs on its answer
SyncOutcome(answer) ==
    CASE answer = "ok"    -> ClientFinish("audio")
      [] answer = "empty" -> ClientFinish("APIException")
      [] answer \in AdapterRetried -> SyncAdapterRetry("NetworkException")
      [] answer \in NoRetryStatuses -> ClientFinish("StatusException")
      [] OTHER -> RetryOrRaise("StatusException")

\* async_client.py:439-521: one HTTP request of AsyncTTSClient._make_request.
\* response.json() of an error answer whose body is not JSON raises
\* aiohttp.ContentTypeError, a ClientError (async_client.py:478-482, 514-518)
AsyncOutcome(answer, json_body) ==
    CASE answer = "ok"    -> ClientFinish("audio")
      [] answer = "empty" -> ClientFinish("APIException")
      [] answer \in TransportFailures -> RetryOrRaise("NetworkException")
      [] answer \in StatusAnswers /\ ~json_body -> RetryOrRaise("NetworkException")
      [] answer \in NoRetryStatuses /\ json_body -> ClientFinish("StatusException")
      [] OTHER -> RetryOrRaise("StatusException")

\* an HTTP request is sent and answered
_make_request_call(answer, json_body) ==
    /\ c_pc = "call"
    /\ c_calls' = c_calls + 1
    /\ c_failures' = IF answer = "ok" THEN c_failures ELSE c_failures + 1
    /\ c_last' = answer
    /\ c_tokens' = Append(c_tokens, c_generation)
    /\ IF c_kind = "sync" THEN SyncOutcome(answer) ELSE AsyncOutcome(answer, json_body)
    /\ UNCHANGED <<c_kind, max_retries, c_generation>>
    /\ UNCHANGED otherThanClient

\* client.py:467-496, async_client.py:495-518: the answers after which the
\* retry loop goes on
RetryableAnswers == {"s503", "s418", "timeout", "conn"}

\* C6: k retryable failures (k <= max_retries) followed by a success make
\* exactly k + 1 provider calls and return the audio, and no request makes more
\* than max_retries + 1 provider calls, in TTSClient and AsyncTTSClient alike.
AtMostMaxRetriesPlusOneCalls ==
    /\ c_calls <= max_retries + 1
    /\ (c_pc = "done" /\ c_result = "audio") => c_calls = c_failures + 1
    /\ (c_pc = "done" /\ c_last \in RetryableAnswers) => c_failures > max_retries

\* What holds of both clients: the retry loop runs at most
\* max_retries + 1 times, a success after k failures is returned after k + 1
\* provider calls, and the loop gives up only after more than max_retries failures
AtMostMaxRetriesPlusOnePosts ==
    /\ c_posts <= max_retries + 1
    /\ c_kind = "async" => c_calls <= max_retries + 1
    /\ (c_pc = "done" /\ c_result = "audio") => c_calls = c_failures + 1
    /\ (c_pc = "done" /\ c_last \in RetryableAnswers) => c_failures > max_retries

\* C21: an upstream response with status 400, 401, 403 or 404 is never retried
\* by TTSClient._make_request or AsyncTTSClient._make_request: the request ends
\* with that answer, the error is raised to the caller, and when it was the
\* first answer exactly one provider call was made.
FatalStatusIsNotRetried ==
    c_last \in NoRetryStatuses
        => /\ c_pc = "done"
           /\ c_result = "StatusException"
           /\ c_failures = 1 => c_calls = 1

\* C32: every outbound provider call carries a generation token that is fresh
\* for that attempt: the token of a call differs from the token of every
\* earlier call of the same request, retries included.
GenerationTokenFreshPerAttempt ==
    \A j \in 1..Len(c_tokens) : \A k \in 1..(j - 1) : c_tokens[k] # c_tokens[j]

(***************************************************************************)
(* Queue server task: process_tts_request (server/handlers.py).            *)
(* The provider's answer to one call is one of                             *)
(*   "ok" (200 with audio), "empty" (200 with zero bytes), "s403", "s429", *)
(*   "s503", "s4xx" (any other status), "timeout" (asyncio.TimeoutError),  *)
(*   "client_error" (aiohttp.ClientError), "exception" (any other          *)
(*   exception, e.g. a Retry-After header that is no integer).             *)
(***************************************************************************)
\* handlers.py:195
task_max_retries == 3
\* Bound: t_calls counts up to CallsCap and stays there
CallsCap == 6

TaskAnswers == {"ok", "empty", "s403", "s429", "s503", "s4xx",
                "timeout", "client_error", "exception"}

TaskStart ==
    /\ t_pc = "send"
    /\ retry_count = 0
    /\ t_calls = 0
    /\ t_last = "none"
    /\ t_result = "none"
    /\ t_rate_limited = FALSE

\* handlers.py:199, 276-282: after `retry_count += 1` the loop condition
\* `while retry_count < max_retries` is tested; past it the task answers 500
CountRetry(exhausted_result) ==
    /\ retry_count' = retry_count + 1
    /\ IF retry_count + 1 < task_max_retries
       THEN t_pc' = "send" /\ UNCHANGED t_result
       ELSE t_pc' = "done" /\ t_result' = exhausted_result

\* handlers.py:199-218: an iteration of the retry loop starts: the random
\* delay, a fresh generation id, and the request is sent
process_tts_request_send ==
    /\ t_pc = "send"
    /\ t_pc' = "wait"
    /\ t_calls' = Min(t_calls + 1, CallsCap)
    /\ UNCHANGED <<retry_count, t_last, t_result, t_rate_limited>>
    /\ UNCHANGED otherThanTask

\* handlers.py:215-282: the provider answers and the iteration ends
process_tts_request_answer(answer) ==
    /\ t_pc = "wait"
    /\ t_last' = answer
    /\ CASE answer \in {"ok", "empty"} ->
                \* handlers.py:237-256: the body is returned as audio
                /\ t_pc' = "done" /\ t_result' = "audio_200"
                /\ UNCHANGED retry_count
         [] answer = "s4xx" ->
                \* handlers.py:239-246
                /\ t_pc' = "done" /\ t_result' = "upstream_status"
                /\ UNCHANGED retry_count
         [] answer = "s429" ->
                \* handlers.py:225-229: sleep(retry_after); continue
                /\ t_pc' = "send"
                /\ UNCHANGED <<t_result, retry_count>>
         [] answer \in {"s403", "s503", "timeout", "client_error"} ->
                \* handlers.py:219-223, 231-235, 257-264
                CountRetry("exhausted_500")
         [] OTHER ->
                \* handlers.py:265-274
                CountRetry("exception_500")
    /\ t_rate_limited' = (t_rate_limited \/ answer = "s429")
    /\ UNCHANGED t_calls
    /\ UNCHANGED otherThanTask

\* C7: a task does not retry forever: every started task terminates
\* (process_tts_request returns) for every provider behaviour, also when the
\* provider keeps answering 429.
TaskEventuallyReturns == <>(t_pc = "done")

\* handlers.py:219-223, 231-235, 257-264: the answers that are retried and
\* counted
TaskRetryable == {"s403", "s503", "timeout", "client_error"}

\* C19: when every attempt of a job fails with a retryable upstream error, the
\* failure returned after the retry budget is exhausted is the error observed
\* on the last attempt (its upstream status or its exception), not a different
\* or generic error.
ReturnsLastObservedError ==
    (t_pc = "done" /\ t_last \in TaskRetryable /\ retry_count >= task_max_retries)
        => t_result = (IF t_last \in {"s403", "s503"}
                       THEN "upstream_status" ELSE "exception_500")

\* C20: a provider response with success status and zero audio bytes is never
\* delivered to the caller as successful audio: the job ends with a failure
\* and is not retried.
EmptyAudioIsAFailure ==
    /\ (t_pc = "done" /\ t_last = "empty") => t_result # "audio_200"
    /\ (c_pc = "done" /\ c_last = "empty") => c_result # "audio"
    /\ t_last = "empty" => t_pc = "done"
    /\ c_last = "empty" => c_pc = "done"

\* C31: a transient upstream failure (403, 503, timeout, network error) is
\* retried up to 3 times: a task whose provider call failed transiently 3 times
\* is not given up, it makes a fourth call whose success returns the audio, so
\* a task that ends on a transient failure has failed more than 3 times; and a
\* task none of whose calls was rate-limited makes at most 4 provider calls.
TransientFailureRetriedThreeTimes ==
    /\ (t_pc = "done" /\ t_last \in TaskRetryable) => retry_count > task_max_retries
    /\ ~t_rate_limited => t_calls <= task_max_retries + 1

(***************************************************************************)
(* Batch drivers: TTSClient.generate_speech_batch (client.py:214-275) runs *)
(* the chunks one after the other; AsyncTTSClient.generate_speech_batch    *)
(* (async_client.py:334-365) runs one _make_request per request under      *)
(* asyncio.gather, each holding a slot of the client's semaphore.          *)
(***************************************************************************)
\* Bounds: chunks per batch and the client's max_concurrent
MaxChunks == 3
max_concurrent == 2

Indices == 1..MaxChunks

BatchStart ==
    /\ b_kind \in {"sync", "async"}
    /\ b_n \in 0..MaxChunks
    /\ b_plan \in [Indices -> {"ok", "fail"}]
    /\ \A i \in Indices : i > b_n => b_plan[i] = "ok"
    /\ b_status = [i \in Indices |-> "pending"]
    /\ b_order = <<>>
    /\ b_sem = max_concurrent
    /\ b_pc = "run"
    /\ b_outcome = "none"
    /\ b_responses = <<>>
    /\ b_raised = 0

Failed(status) == {i \in 1..b_n : status[i] = "failed"}
FirstOf(S) == CHOOSE i \in S : \A j \in S : i <= j

\* client.py:253-275: the next chunk in index order is synthesized; its
\* response is appended, or its exception leaves generate_speech_batch.  With
\* no chunk at all ValueError is raised (client.py:253-254).
sync_generate_speech_batch_step ==
    /\ b_kind = "sync" /\ b_pc = "run"
    /\ IF b_n = 0
       THEN /\ b_pc' = "done" /\ b_outcome' = "raised"
            /\ UNCHANGED <<b_status, b_order, b_responses, b_raised>>
       ELSE LET i == Len(b_responses) + 1
            IN  /\ b_order' = Append(b_order, i)
                /\ IF b_plan[i] = "ok"
                   THEN /\ b_status' = [b_status EXCEPT ![i] = "ok"]
                        /\ b_responses' = Append(b_responses, i)
                        /\ UNCHANGED b_raised
                        /\ IF i = b_n
                           THEN b_pc' = "done" /\ b_outcome' = "returned"
                           ELSE UNCHANGED <<b_pc, b_outcome>>
                   ELSE /\ b_status' = [b_status EXCEPT ![i] = "failed"]
                        /\ b_raised' = i
                        /\ b_pc' = "done" /\ b_outcome' = "raised"
                        /\ UNCHANGED b_responses
    /\ UNCHANGED <<b_kind, b_n, b_plan, b_sem>>
    /\ UNCHANGED otherThanBatch

\* async_client.py:394: a request of the batch enters `async with self._semaphore`
async_make_request_acquire(i) ==
    /\ b_kind = "async" /\ b_pc = "run"
    /\ i <= b_n /\ b_status[i] = "pending"
    /\ b_sem > 0
    /\ b_sem' = b_sem - 1
    /\ b_status' = [b_status EXCEPT ![i] = "running"]
    /\ UNCHANGED <<b_kind, b_n, b_plan, b_order, b_pc, b_outcome, b_responses, b_raised>>
    /\ UNCHANGED otherThanBatch

\* (mutant: the slot is released only when the request returns)
SemaphoreExitOnReturn(sem, outcome) == IF outcome = "ok" THEN sem + 1 ELSE sem
\* async_client.py:394: leaving `async with self._semaphore` releases the slot,
\* whether the block returns or raises
SemaphoreExit(sem, outcome) == sem + 1

\* async_client.py:394-521: the request returns its response or raises; the
\* semaphore slot is released
async_make_request_finish(i) ==
    /\ b_kind = "async" /\ b_pc = "run"
    /\ i <= b_n /\ b_status[i] = "running"
    /\ b_sem' = SemaphoreExit(b_sem, b_plan[i])
    /\ b_status' = [b_status EXCEPT ![i] = IF b_plan[i] = "ok" THEN "ok" ELSE "failed"]
    /\ b_order' = Append(b_order, i)
    /\ UNCHANGED <<b_kind, b_n, b_plan, b_pc, b_outcome, b_responses, b_raised>>
    /\ UNCHANGED otherThanBatch

\* (mutant: the results are collected in completion order)
GatherResultsInCompletionOrder(n, order) == order
\* async_client.py:351-352: asyncio.gather returns the results in the order of
\* the awaitables passed to it
GatherResults(n, order) == [i \in 1..n |-> i]

\* (mutant: failed requests are skipped and the others returned)
GatherOutcomeSkippingFailures(status) == "returned"
\* async_client.py:355-365: the first exception in index order is raised
GatherOutcome(status) == IF Failed(status) # {} THEN "raised" ELSE "returned"

\* async_client.py:347-365: gather has every result; the results are scanned in
\* index order.  An empty request list returns [] at once.
async_generate_speech_batch_return ==
    /\ b_kind = "async" /\ b_pc = "run"
    /\ \A i \in 1..b_n : b_status[i] \in {"ok", "failed"}
    /\ b_pc' = "done"
    /\ b_outcome' = GatherOutcome(b_status)
    /\ IF GatherOutcome(b_status) = "raised"
       THEN /\ b_raised' = FirstOf(Failed(b_status))
            /\ b_responses' = SubSeq(GatherResults(b_n, b_order), 1,
                                     FirstOf(Failed(b_status)) - 1)
       ELSE /\ b_responses' = GatherResults(b_n, b_order)
            /\ UNCHANGED b_raised
    /\ UNCHANGED <<b_kind, b_n, b_plan, b_status, b_order, b_sem>>
    /\ UNCHANGED otherThanBatch

PlannedFailures == {i \in 1..b_n : b_plan[i] = "fail"}
RECURSIVE IndicesExcept(_, _)
IndicesExcept(n, S) ==
    IF n = 0 THEN <<>>
    ELSE IndicesExcept(n - 1, S) \o (IF n \in S THEN <<>> ELSE <<n>>)

\* C8 (as stated): when one chunk of a multi-chunk batch fails permanently and
\* the others succeed, the request is not failed: the other chunks are all
\* processed and the result is the successful chunks in index order.
PartialResultOnChunkFailure ==
    (b_pc = "done" /\ b_n >= 2 /\ Cardinality(PlannedFailures) = 1)
        => /\ b_outcome = "returned"
           /\ b_responses = IndicesExcept(b_n, PlannedFailures)
           /\ \A i \in 1..b_n : b_status[i] \in {"ok", "failed"}

\* C8 (amended): when a chunk of a batch fails permanently the whole request
\* fails: generate_speech_batch raises the exception of the first failed chunk
\* in index order and returns nothing (the responses of the chunks before it
\* are dropped with the local list); TTSClient stops at that chunk
\* and leaves the later chunks unprocessed, AsyncTTSClient lets every request
\* finish before it raises.
BatchFailsOnChunkFailure ==
    (b_pc = "done" /\ PlannedFailures # {})
        => /\ b_outcome = "raised"
           /\ b_responses = IndicesExcept(FirstOf(PlannedFailures) - 1, {})
           /\ b_raised = FirstOf(PlannedFailures)
           /\ b_kind = "sync" =>
                 \A i \in 1..b_n : i > b_raised => b_status[i] = "pending"
           /\ b_kind = "async" =>
                 \A i \in 1..b_n : b_status[i] \in {"ok", "failed"}

\* C8 witness: chunk 2 of 3 failed, the other two were synthesized, and the
\* asynchronous batch raised
OneChunkOfThreeFailed ==
    /\ b_pc = "done" /\ b_kind = "async" /\ b_n = 3
    /\ b_status = [i \in Indices |-> IF i = 2 THEN "failed" ELSE "ok"]
    /\ b_outcome = "raised"

SlotHolders == {i \in 1..b_n : b_status[i] = "running"}

\* C36: for one AsyncTTSClient at most max_concurrent requests hold a
\* concurrency slot at any time; a slot is acquired before the provider is
\* called and released when the request returns or raises, so the free slots
\* are max_concurrent minus the requests in progress, and once all requests
\* have terminated all max_concurrent slots are free again.
SlotsWithinMaxConcurrent ==
    b_kind = "async"
        => /\ Cardinality(SlotHolders) <= max_concurrent
           /\ b_sem = max_concurrent - Cardinality(SlotHolders)
           /\ (\A i \in 1..b_n : b_status[i] \in {"ok", "failed"})
                 => b_sem = max_concurrent

\* C36 witness: a request raised and released its slot, and the request that
\* waited for it took it: every slot is held again
AllSlotsTakenAfterFailure ==
    /\ b_kind = "async" /\ b_sem = 0
    /\ \E i \in 1..b_n : b_status[i] = "failed"
    /\ Cardinality(SlotHolders) = max_concurrent

(***************************************************************************)
(* Streaming session: WebSocketTTSHandler (ttsfm-web/websocket_handler.py).*)
(* One generate_stream request of one connected client is followed; the    *)
(* background task synthesizes the chunks one after the other and emits    *)
(* events to the client's room.                                            *)
(***************************************************************************)
\* Bound: length of the text of a streaming request
MaxStreamTextLen == 3

Event(type, arg) == [type |-> type, arg |-> arg]

StreamStart ==
    /\ s_data \in [text : StringsUpTo(MaxStreamTextLen),
                   chunk_size : 1..MaxMaxLength,
                   valid : BOOLEAN]
    /\ s_pc = "idle"
    /\ s_connected = TRUE
    /\ s_chunks = <<>>
    /\ s_i = 0
    /\ s_failures = 0
    /\ s_failed = {}
    /\ s_events = <<>>

\* websocket_handler.py:63-97: the request is acknowledged and the background
\* task is started
handle_generate_stream ==
    /\ s_pc = "idle" /\ s_connected
    /\ s_events' = Append(s_events, Event("stream_started", 0))
    /\ s_pc' = "task"
    /\ UNCHANGED <<s_data, s_connected, s_chunks, s_i, s_failures, s_failed>>
    /\ UNCHANGED otherThanStream

\* websocket_handler.py:55-61: the client's session is forgotten
handle_disconnect ==
    /\ s_pc \in {"task", "loop", "synth"} /\ s_connected
    /\ s_connected' = FALSE
    /\ UNCHANGED <<s_data, s_pc, s_chunks, s_i, s_failures, s_failed, s_events>>
    /\ UNCHANGED otherThanStream

\* websocket_handler.py:99-107: the cancellation is acknowledged; nothing is
\* recorded for the background task.  One cancel_stream per request is followed.
handle_cancel_stream ==
    /\ s_pc \in {"task", "loop", "synth"} /\ s_connected
    /\ \A k \in 1..Len(s_events) : s_events[k].type # "stream_cancelled"
    /\ s_events' = Append(s_events, Event("stream_cancelled", 0))
    /\ UNCHANGED <<s_data, s_pc, s_connected, s_chunks, s_i, s_failures, s_failed>>
    /\ UNCHANGED otherThanStream

\* (mutant: the error is only logged)
_log_error == s_events
\* websocket_handler.py:217-223
_emit_error == Append(s_events, Event("stream_error", 0))

\* websocket_handler.py:116-148: validation, split, initial progress
_generate_stream_begin ==
    /\ s_pc = "task"
    /\ IF s_data.text = "" \/ ~s_data.valid
       THEN /\ s_events' = _emit_error
            /\ s_pc' = "done"
            /\ UNCHANGED s_chunks
       ELSE /\ s_chunks' = split_text_by_length(s_data.text, s_data.chunk_size, TRUE)
            /\ s_events' = Append(s_events, Event("stream_progress", 0))
            /\ s_pc' = "loop"
    /\ UNCHANGED <<s_data, s_connected, s_i, s_failures, s_failed>>
    /\ UNCHANGED otherThanStream

\* (mutant: the progress is computed from the loop index i instead of i + 1)
ProgressOfIndex(done, total_chunks) == ((done - 1) * 100) \div total_chunks
\* websocket_handler.py:184: int(((i + 1) / total_chunks) * 100), with done
\* = i + 1; the double-precision result equals the integer quotient for every
\* total_chunks below 40
Progress(done, total_chunks) == (done * 100) \div total_chunks

\* websocket_handler.py:184-191: the progress update after chunk i, with
\* 'chunks_completed': i + 1
ProgressEvent(i, total_chunks) ==
    [type |-> "stream_progress", arg |-> Progress(i + 1, total_chunks),
     chunks_completed |-> i + 1]

\* websocket_handler.py:204-209
StreamComplete(events) == Append(events, Event("stream_complete", Len(s_chunks)))

\* (mutant: a failed chunk ends the loop)
BreakAfterFailure(i, total_chunks) == total_chunks
\* websocket_handler.py:197-201: `continue` with the next chunk
ContinueAfterFailure(i, total_chunks) == i + 1

\* (mutant: the loop does not look at active_sessions)
SessionActiveUnchecked(connected) == TRUE
\* websocket_handler.py:153: `session_id in self.active_sessions`
SessionActive(connected) == connected

\* websocket_handler.py:151-160: an iteration of the loop over the chunks
\* starts.  A vanished session breaks out of the loop, and leaving the loop
\* emits stream_complete; otherwise generate_speech is called for the chunk.
_generate_stream_next ==
    /\ s_pc = "loop" /\ s_i < Len(s_chunks)
    /\ IF ~SessionActive(s_connected)
       THEN /\ s_events' = StreamComplete(s_events)
            /\ s_pc' = "done"
       ELSE /\ s_pc' = "synth"
            /\ UNCHANGED s_events
    /\ UNCHANGED <<s_data, s_connected, s_chunks, s_i, s_failures, s_failed>>
    /\ UNCHANGED otherThanStream

\* websocket_handler.py:160-209: generate_speech returns (ok) or raises.  The
\* chunk and the progress are published, or the failure is reported and the
\* chunk skipped; after the last chunk the loop ends and stream_complete is
\* emitted.
_generate_stream_chunk(ok) ==
    /\ s_pc = "synth"
    /\ s_i' = IF ok THEN s_i + 1 ELSE ContinueAfterFailure(s_i, Len(s_chunks))
    /\ s_failures' = IF ok THEN s_failures ELSE s_failures + 1
    /\ s_failed' = IF ok THEN s_failed ELSE s_failed \cup {s_i}
    /\ LET emitted ==
             IF ok
             THEN s_events
                  \o <<Event("audio_chunk", s_i),
                       ProgressEvent(s_i, Len(s_chunks))>>
             ELSE _emit_error
       IN  IF s_i' = Len(s_chunks)
           THEN s_events' = StreamComplete(emitted) /\ s_pc' = "done"
           ELSE s_events' = emitted /\ s_pc' = "loop"
    /\ UNCHANGED <<s_data, s_connected, s_chunks>>
    /\ UNCHANGED otherThanStream

\* websocket_handler.py:151, 204-209: no chunk at all, the loop body never runs
_generate_stream_no_chunks ==
    /\ s_pc = "loop" /\ Len(s_chunks) = 0
    /\ s_events' = StreamComplete(s_events)
    /\ s_pc' = "done"
    /\ UNCHANGED <<s_data, s_connected, s_chunks, s_i, s_failures, s_failed>>
    /\ UNCHANGED otherThanStream

EventsOfType(type) == SelectSeq(s_events, LAMBDA e : e.type = type)
ArgsOfType(type) == [k \in 1..Len(EventsOfType(type)) |-> EventsOfType(type)[k].arg]
NonDecreasing(seq) == \A k \in 1..(Len(seq) - 1) : seq[k] <= seq[k + 1]

\* the request ran to its end with every chunk synthesized and the client
\* connected throughout
StreamSucceeded ==
    /\ s_pc = "done" /\ s_data.text # "" /\ s_data.valid
    /\ s_connected /\ s_failures = 0

\* what C10 and its amendment have in common: one stream_started first, one
\* audio_chunk per chunk index in index order, non-decreasing progress, one
\* stream_complete last, no stream_error
StreamEventShape ==
    /\ Len(EventsOfType("stream_started")) = 1
    /\ s_events[1].type = "stream_started"
    /\ ArgsOfType("audio_chunk") = [k \in 1..Len(s_chunks) |-> k - 1]
    /\ NonDecreasing(ArgsOfType("stream_progress"))
    /\ Len(EventsOfType("stream_complete")) = 1
    /\ s_events[Len(s_events)].type = "stream_complete"
    /\ Len(EventsOfType("stream_error")) = 0

LastProgress == ArgsOfType("stream_progress")[Len(ArgsOfType("stream_progress"))]

\* C10 (as stated): for a streaming request whose text splits into N chunks
\* that all synthesize successfully while the client stays connected, the
\* events are one stream_started, N audio_chunk events (one per index),
\* stream_progress values that never decrease and end at 100, and one
\* stream_complete after the last audio_chunk.
StreamEndsAtHundred ==
    StreamSucceeded => (StreamEventShape /\ LastProgress = 100)

\* C10 (amended): the same, with the progress ending at 100 only when the text
\* splits into at least one chunk; a text that splits into no chunk (only
\* whitespace, longer than chunk_size) gets stream_started, the single progress
\* value 0 and stream_complete.
StreamEndsAtHundredWhenChunks ==
    StreamSucceeded =>
        /\ StreamEventShape
        /\ Len(s_chunks) >= 1 => LastProgress = 100
        /\ Len(s_chunks) = 0 => ArgsOfType("stream_progress") = <<0>>

\* C10 witness: a three-chunk request streamed to its end
ThreeChunksStreamed ==
    /\ StreamSucceeded /\ Len(s_chunks) = 3
    /\ Len(EventsOfType("audio_chunk")) = 3

Positions(type) == {k \in 1..Len(s_events) : s_events[k].type = type}
\* the progress updates emitted after a chunk (the initial one has no
\* chunks_completed)
ProgressAfterChunk ==
    {k \in Positions("stream_progress") : "chunks_completed" \in DOMAIN s_events[k]}
StreamOutput == {"audio_chunk", "stream_progress", "stream_complete"}
\* no audio_chunk, stream_progress or stream_complete comes after an event of
\* the given type
NothingStreamedAfter(type) ==
    \A k \in Positions(type) : \A l \in (k + 1)..Len(s_events) :
        s_events[l].type \notin StreamOutput

\* C22: stream_complete is emitted for a request only after every chunk of the
\* request has been attempted (each index gave an audio_chunk event or a
\* recorded failure), never while some chunk has not been attempted.
CompleteOnlyAfterAllChunks ==
    Positions("stream_complete") # {}
        => /\ s_i = Len(s_chunks)
           /\ \A i \in 0..(Len(s_chunks) - 1) :
                 i \in s_failed \/ i \in {s_events[k].arg : k \in Positions("audio_chunk")}

CancelStopsEvents == NothingStreamedAfter("stream_cancelled")

\* C28: when some chunks of a streaming request fail and others succeed, the
\* failure of a chunk does not abort its siblings: while the client stays
\* connected every chunk after a failed one is still attempted, and there is
\* an audio_chunk event for exactly the chunks that succeeded, in index order.
FailedChunkDoesNotAbortSiblings ==
    (s_pc = "done" /\ s_connected /\ s_data.text # "" /\ s_data.valid)
        => /\ s_i = Len(s_chunks)
           /\ \A i \in 0..(Len(s_chunks) - 1) :
                 (i \in s_failed) # (\E k \in Positions("audio_chunk") : s_events[k].arg = i)
           /\ NonDecreasing(ArgsOfType("audio_chunk"))
           /\ Len(ArgsOfType("audio_chunk")) = Len(s_chunks) - Cardinality(s_failed)

\* C28 witness: the first of three chunks failed and the other two were
\* streamed
FirstChunkFailedOthersStreamed ==
    /\ s_pc = "done" /\ s_connected /\ Len(s_chunks) = 3
    /\ s_failed = {0}
    /\ ArgsOfType("audio_chunk") = <<1, 2>>

\* C33: in every stream_progress event emitted after a chunk, chunks_completed
\* equals the number of audio_chunk events published so far for the request,
\* and progress equals chunks_completed / total_chunks * 100 rounded down.
ChunksCompletedCountsAudioChunks ==
    \A k \in ProgressAfterChunk :
        /\ s_events[k].chunks_completed
              = Cardinality({l \in Positions("audio_chunk") : l < k})
        /\ s_events[k].arg = (s_events[k].chunks_completed * 100) \div Len(s_chunks)

MaxStreams == 3
MaxSessionChunks == 2
\* the request_id values the client sends
RequestIds == {"r1", "r2"}

SessionStart == request_count = 0 /\ background_tasks = <<>>

\* websocket_handler.py:63-97: a generate_stream message: request_id is taken
\* from the message as it is, the request is counted and a background task
\* running _generate_stream(session_id, request_id, data) is started
session_generate_stream(request_id, total_chunks) ==
    /\ Len(background_tasks) < MaxStreams
    /\ request_count' = request_count + 1
    /\ background_tasks' = Append(background_tasks,
            [request_id |-> request_id, total_chunks |-> total_chunks,
             i |-> 0, pc |-> "running"])
    /\ UNCHANGED otherThanSession

\* websocket_handler.py:151-209: the k-th background task synthesizes its
\* next chunk, or ends after the last one
session_stream_chunk(k) ==
    /\ k <= Len(background_tasks)
    /\ background_tasks[k].pc = "running"
    /\ background_tasks' = [background_tasks EXCEPT ![k] =
            IF @.i + 1 >= @.total_chunks
            THEN [@ EXCEPT !.i = @ + 1, !.pc = "done"]
            ELSE [@ EXCEPT !.i = @ + 1]]
    /\ UNCHANGED request_count
    /\ UNCHANGED otherThanSession

\* the background tasks still synthesizing for a request_id
ActiveFor(request_id) ==
    {k \in 1..Len(background_tasks) :
        background_tasks[k].request_id = request_id /\ background_tasks[k].pc = "running"}

\* C25: within one session at most one synthesis is active per request_id at
\* any time: a generate_stream message carrying the request_id of a stream
\* that is still running starts no second concurrent generation for it.
OneActiveSynthesisPerRequestId ==
    \A request_id \in RequestIds : Cardinality(ActiveFor(request_id)) <= 1

(***************************************************************************)
(* Audio combination: combine_audio_chunks, _simple_wav_concatenation and  *)
(* combine_responses (ttsfm/audio.py).  Byte strings are sequences of      *)
(* numbers 0..255.                                                         *)
(***************************************************************************)
\* Bounds: chunks per call, and the longest WAV payload (two bytes of the
\* size fields are exercised)
MaxCombine == 2
MaxPayloadLen == 300

\* audio.py:77, 80: the length of a canonical WAV header
WavHeaderLen == 44
\* audio.py:87: the RIFF size field does not count the first 8 bytes
RiffPrefixLen == 8

\* audio.py:88, 91: int.to_bytes(4, byteorder="little")
ToBytesLittle4(n) == [k \in 1..4 |-> (n \div (256 ^ (k - 1))) % 256]

FromBytesLittle4(b) == b[1] + 256 * b[2] + 65536 * b[3] + 16777216 * b[4]

Fill(len, byte) == [k \in 1..len |-> byte]

\* a canonical 44-byte header: "RIFF" size "WAVE" "fmt " ... "data" size; mark
\* stands for the format fields (channels, sample rate) of the chunk
WavHeader(payload_len, mark) ==
    <<82, 73, 70, 70>> \o ToBytesLittle4(payload_len + WavHeaderLen - RiffPrefixLen)
    \o <<87, 65, 86, 69, 102, 109, 116, 32>> \o <<16, 0, 0, 0>>
    \o Fill(16, mark)
    \o <<100, 97, 116, 97>> \o ToBytesLittle4(payload_len)

WavChunk(payload_len, mark) == WavHeader(payload_len, mark) \o Fill(payload_len, mark)

PayloadLens == {0, 2, MaxPayloadLen}
WavChunks == {WavChunk(len, mark) : len \in PayloadLens, mark \in {1, 2}}
\* MPEG frames (sync byte 255) and a byte string that is no audio at all
Mp3Chunks == {<<255, 251, 1>>, <<255, 251, 2>>}
InvalidChunks == {<<105, 110>>}
\* an Ogg page ("OggS" ...) carrying Opus data, longer than a WAV header
OpusChunks == {<<79, 103, 103, 83>> \o Fill(WavHeaderLen, 3)}
AudioChunks == WavChunks \cup Mp3Chunks \cup InvalidChunks \cup OpusChunks

\* audio.py:20 / models.AudioFormat: mp3, wav and one more format
Formats == {"mp3", "wav", "opus"}

RECURSIVE ListsUpTo(_, _)
ListsUpTo(S, n) ==
    IF n = 0 THEN {<<>>}
    ELSE ListsUpTo(S, n - 1)
         \cup {Append(l, x) : l \in {m \in ListsUpTo(S, n - 1) : Len(m) = n - 1}, x \in S}

AudioStart ==
    /\ a_chunks \in ListsUpTo(AudioChunks, MaxCombine)
    /\ a_fmt \in Formats
    /\ a_pydub \in BOOLEAN
    /\ a_codec \in {"none", "decode", "concat", "export"}
    /\ a_via \in {"chunks", "responses"}
    /\ a_pc = "call"
    /\ a_raised = "none"
    /\ a_result = <<>>
    /\ a_decoded = 0
    /\ a_count = 0

RECURSIVE Join(_)
\* b"".join(chunks)
Join(parts) == IF parts = <<>> THEN <<>> ELSE Head(parts) \o Join(Tail(parts))

\* bytes[44:]
Payload(chunk) == SubSeq(chunk, WavHeaderLen + 1, Len(chunk))

RECURSIVE AppendPayloads(_, _)
\* audio.py:83-85
AppendPayloads(audio_data, wav_chunks) ==
    IF wav_chunks = <<>> THEN audio_data
    ELSE AppendPayloads(
            IF Len(Head(wav_chunks)) > WavHeaderLen
            THEN audio_data \o Payload(Head(wav_chunks)) ELSE audio_data,
            Tail(wav_chunks))

\* (mutant: both size fields are given the payload length plus the header length)
TotalSizeWithHeader(header, audio_data) == Len(header) + Len(audio_data)
\* audio.py:87
TotalSize(header, audio_data) == Len(header) + Len(audio_data) - RiffPrefixLen

\* audio.py:67-96.  The sizes of the model stay far below 2^32, so to_bytes
\* never raises and the except clause is not entered.
_simple_wav_concatenation(wav_chunks) ==
    IF wav_chunks = <<>> THEN <<>>
    ELSE IF Len(wav_chunks) = 1 THEN wav_chunks[1]
    ELSE IF Len(wav_chunks[1]) < WavHeaderLen THEN Join(wav_chunks)
    ELSE LET header == SubSeq(wav_chunks[1], 1, WavHeaderLen)
             audio_data == AppendPayloads(Payload(wav_chunks[1]), Tail(wav_chunks))
         IN  SubSeq(header, 1, 4)
             \o ToBytesLittle4(TotalSize(header, audio_data))
             \o SubSeq(header, 9, 40)
             \o ToBytesLittle4(Len(audio_data))
             \o audio_data

Returned(bytes, decoded) == [raised |-> "none", bytes |-> bytes, decoded |-> decoded]
Raised(exception, decoded) == [raised |-> exception, bytes |-> <<>>, decoded |-> decoded]

\* audio.py:51-54: AudioSegment.from_mp3 understands MPEG data, from_wav (used
\* for every other format) RIFF/WAVE data; anything else raises
Decodable(chunk, fmt) ==
    IF fmt = "mp3" THEN chunk \in Mp3Chunks ELSE chunk \in WavChunks

Undecodable(chunks_list, fmt) ==
    {k \in 1..Len(chunks_list) : ~Decodable(chunks_list[k], fmt)}

\* audio.py:57-64: the segments are concatenated and encoded afresh: a WAV
\* export is a canonical header for all samples in the first segment's format,
\* an MP3 export is a new stream made by the encoder
Export(chunks_list, fmt) ==
    IF fmt = "mp3"
    THEN <<255, 251, 0>> \o Join(chunks_list)
    ELSE LET samples == AppendPayloads(<<>>, chunks_list)
         IN  WavHeader(Len(samples), chunks_list[1][25]) \o samples

\* audio.py:48-64: the codec-library path; nothing on it catches an exception
PydubCombine(chunks_list, fmt, codec) ==
    IF Undecodable(chunks_list, fmt) # {}
    THEN Raised("CouldntDecodeError", FirstOf(Undecodable(chunks_list, fmt)))
    ELSE IF codec = "decode" THEN Raised("CouldntDecodeError", 1)
    ELSE IF codec = "concat" /\ Len(chunks_list) > 1
         THEN Raised("CodecError", Len(chunks_list))
    ELSE IF codec = "export" THEN Raised("CodecError", Len(chunks_list))
    ELSE Returned(Export(chunks_list, fmt), Len(chunks_list))

\* (mutant: an empty list is an error)
combine_audio_chunks_empty_raises(chunks_list, fmt, pydub, codec) ==
    IF chunks_list = <<>> THEN Raised("ValueError", 0)
    ELSE IF ~pydub
    THEN IF fmt = "mp3" THEN Raised("RuntimeError", 0)
         ELSE Returned(_simple_wav_concatenation(chunks_list), 0)
    ELSE PydubCombine(chunks_list, fmt, codec)
\* audio.py:23-64
combine_audio_chunks(chunks_list, fmt, pydub, codec) ==
    IF chunks_list = <<>> THEN Returned(<<>>, 0)
    ELSE IF ~pydub
    THEN IF fmt = "mp3" THEN Raised("RuntimeError", 0)
         ELSE Returned(_simple_wav_concatenation(chunks_list), 0)
    ELSE PydubCombine(chunks_list, fmt, codec)

\* audio.py:23-64 called directly
combine_audio_chunks_call ==
    /\ a_pc = "call" /\ a_via = "chunks"
    /\ LET out == combine_audio_chunks(a_chunks, a_fmt, a_pydub, a_codec)
       IN  /\ a_raised' = out.raised
           /\ a_result' = out.bytes
           /\ a_decoded' = out.decoded
    /\ a_pc' = "done"
    /\ UNCHANGED <<a_chunks, a_fmt, a_pydub, a_codec, a_via, a_count>>
    /\ UNCHANGED otherThanAudio

\* audio.py:99-130: the responses' audio is combined in the first response's
\* format; an empty list raises ValueError
combine_responses_call ==
    /\ a_pc = "call" /\ a_via = "responses"
    /\ IF a_chunks = <<>>
       THEN /\ a_raised' = "ValueError"
            /\ UNCHANGED <<a_result, a_decoded, a_count>>
       ELSE LET out == combine_audio_chunks(a_chunks, a_fmt, a_pydub, a_codec)
            IN  /\ a_raised' = out.raised
                /\ a_result' = out.bytes
                /\ a_decoded' = out.decoded
                /\ a_count' = IF out.raised = "none" THEN Len(a_chunks) ELSE 0
    /\ a_pc' = "done"
    /\ UNCHANGED <<a_chunks, a_fmt, a_pydub, a_codec, a_via>>
    /\ UNCHANGED otherThanAudio

\* C11: an exception raised on the codec-library path (decoding a chunk,
\* concatenating, exporting) does not leave combine_audio_chunks: the call
\* returns the raw byte concatenation of all chunks in order.
CodecErrorFallsBackToRaw ==
    (/\ a_pc = "done" /\ a_pydub /\ a_chunks # <<>>
     /\ PydubCombine(a_chunks, a_fmt, a_codec).raised # "none")
        => (a_raised = "none" /\ a_result = Join(a_chunks))

\* C12: combining exactly one chunk returns that chunk's bytes unchanged, with
\* no decoding or re-encoding, for every format and whether or not the codec
\* library is available.
SingleChunkUnchanged ==
    (a_pc = "done" /\ Len(a_chunks) = 1)
        => (a_raised = "none" /\ a_result = a_chunks[1] /\ a_decoded = 0)

\* C27: when the codec library is unavailable and the format is not WAV
\* (mp3, opus, aac), combining several chunks returns the raw byte
\* concatenation of the chunks in order and raises no error.
NoCodecNonWavIsRawConcatenation ==
    (a_pc = "done" /\ ~a_pydub /\ a_fmt # "wav" /\ Len(a_chunks) >= 2)
        => (a_raised = "none" /\ a_result = Join(a_chunks))

\* The same for Opus chunks alone, where nothing is raised: the result is the
\* raw concatenation (violated: 44 bytes of the second chunk are dropped and
\* bytes 4-7 and 40-43 of the first are overwritten)
NoCodecOpusIsRawConcatenation ==
    (a_pc = "done" /\ ~a_pydub /\ a_fmt = "opus" /\ Len(a_chunks) >= 2
     /\ \A k \in 1..Len(a_chunks) : a_chunks[k] \in OpusChunks)
        => (a_raised = "none" /\ a_result = Join(a_chunks))

\* two well-formed WAV chunks were combined on the path without codec library
TwoWavChunksOnFallbackPath ==
    /\ a_pc = "done" /\ ~a_pydub /\ a_fmt # "mp3"
    /\ Len(a_chunks) = 2 /\ a_chunks[1] \in WavChunks /\ a_chunks[2] \in WavChunks

PayloadTotal == Len(Payload(a_chunks[1])) + Len(Payload(a_chunks[2]))

\* the result is the first chunk's header, but for the two size fields,
\* followed by both payloads
FirstHeaderThenPayloads ==
    /\ a_raised = "none"
    /\ Len(a_result) = WavHeaderLen + PayloadTotal
    /\ \A k \in (1..4) \cup (9..40) : a_result[k] = a_chunks[1][k]
    /\ SubSeq(a_result, WavHeaderLen + 1, Len(a_result))
          = Payload(a_chunks[1]) \o Payload(a_chunks[2])

\* C13 (as stated): for two well-formed WAV chunks on the no-codec path the
\* result is the first chunk's header followed by both payloads, and the
\* declared total size (bytes 4-7) and the data-chunk size (bytes 40-43) both
\* equal the sum of the two payload lengths plus the header size.
WavSizeFieldsPayloadPlusHeader ==
    TwoWavChunksOnFallbackPath =>
        /\ FirstHeaderThenPayloads
        /\ FromBytesLittle4(SubSeq(a_result, 5, 8)) = PayloadTotal + WavHeaderLen
        /\ FromBytesLittle4(SubSeq(a_result, 41, 44)) = PayloadTotal + WavHeaderLen

\* C13 (amended): the result is the first chunk's header followed by both
\* payloads; the data-chunk size (bytes 40-43) is the sum of the two payload
\* lengths, and the declared total size (bytes 4-7) is that sum plus the header
\* size minus the 8 bytes of the RIFF prefix (sum + 36), both little-endian.
WavSizeFieldsFollowRiff ==
    TwoWavChunksOnFallbackPath =>
        /\ FirstHeaderThenPayloads
        /\ FromBytesLittle4(SubSeq(a_result, 5, 8))
              = PayloadTotal + WavHeaderLen - RiffPrefixLen
        /\ FromBytesLittle4(SubSeq(a_result, 41, 44)) = PayloadTotal

\* C13 witness: two WAV chunks with payloads of MaxPayloadLen bytes and
\* different format fields were combined; the sizes need two bytes
TwoLongWavChunksCombined ==
    /\ TwoWavChunksOnFallbackPath
    /\ Len(a_chunks[1]) = WavHeaderLen + MaxPayloadLen
    /\ Len(a_chunks[2]) = WavHeaderLen + MaxPayloadLen
    /\ a_chunks[1][25] # a_chunks[2][25]
    /\ a_result[6] > 0

\* C16 (as stated): combining zero chunks yields an empty byte buffer and
\* raises no error, for every format, through combine_audio_chunks and through
\* combine_responses.
ZeroChunksGiveEmptyBuffer ==
    (a_pc = "done" /\ a_chunks = <<>>) => (a_raised = "none" /\ a_result = <<>>)

\* C16 (amended): combine_audio_chunks of zero chunks returns an empty byte
\* buffer and raises no error, for every format and with or without the codec
\* library; combine_responses of zero responses raises ValueError.
ZeroChunksEmptyBufferOrValueError ==
    (a_pc = "done" /\ a_chunks = <<>>) =>
        /\ a_via = "chunks" => (a_raised = "none" /\ a_result = <<>>)
        /\ a_via = "responses" => a_raised = "ValueError"

\* C16 witness: zero chunks were combined as MP3 without the codec library
ZeroChunksCombinedAsMp3 ==
    /\ a_pc = "done" /\ a_chunks = <<>> /\ a_via = "chunks"
    /\ a_fmt = "mp3" /\ ~a_pydub /\ a_raised = "none"

(***************************************************************************)
(* The splitter's chunks against its input text.                           *)
(***************************************************************************)
\* the characters of s that are no whitespace, in order
DeleteWhitespace(s) == SelectSeq(s, LAMBDA c : c \notin Whitespace)

\* C34: no chunk returned by split_text_by_length is empty or consists only of
\* whitespace, for every text, every max_length >= 1 and both preserve_words
\* settings.
NoBlankChunk ==
    split_pc = "done" => \A k \in 1..Len(chunks) : Strip(chunks[k]) # <<>>

\* C40: splitting loses no content: the chunks concatenated in order, with all
\* whitespace deleted, are the text with all whitespace deleted, for every
\* text, every max_length >= 1 and both preserve_words settings.
NoContentLost ==
    split_pc = "done" => DeleteWhitespace(Join(chunks)) = DeleteWhitespace(text)

\* C40 witness: a text with blanks and a sentence terminator was split with
\* preserve_words into several chunks that are not the text cut in pieces
SentencesSplitAndRejoined ==
    /\ split_pc = "done" /\ preserve_words
    /\ Len(chunks) >= 2
    /\ Join(chunks) # text
    /\ \E k \in 1..Len(text) : text[k] \in _SENTENCE_TERMINATORS
    /\ \E k \in 1..Len(chunks) : Len(SplitWords(chunks[k])) >= 2

(***************************************************************************)
(* Proxy pool: ProxyManager (proxy/manager.py:20-104; server.py:25-109 is  *)
(* the same class).  The tasks are the callers of get_proxy and the tasks   *)
(* that run refresh_proxies alone: the one of initialize and those started  *)
(* by create_task.  asyncio.Lock is not reentrant: only its holder frees it.*)
(***************************************************************************)
\* number of tasks that call get_proxy, each once
NumCallers == 2
\* manager.py:24: batch_size, the most proxies one API answer carries
batch_size == 2

Callers == 1..NumCallers
\* one refresh for initialize, and at most one create_task per get_proxy
Refreshers == (NumCallers + 1)..(2 * NumCallers + 1)
ProxyTasks == Callers \cup Refreshers

\* what the proxy API answers: a failure is a status other than 200, a body
\* without code 200 or data, or an exception (manager.py:65-73, 80-82);
\* otherwise the answer carries the list data['data']['proxies']
ApiAnswers ==
    {[ok |-> FALSE, proxies |-> <<>>]}
    \cup {[ok |-> TRUE, proxies |-> [k \in 1..n |-> k]] : n \in 0..batch_size}

\* list.remove at the position random.choice picked (manager.py:97-98)
RemoveAt(s, i) == [k \in 1..(Len(s) - 1) |-> IF k < i THEN s[k] ELSE s[k + 1]]

\* manager.py:35-37: __init__
ProxyStart ==
    /\ session = FALSE /\ proxies = <<>> /\ lock = 0
    /\ p_pc = [t \in ProxyTasks |-> IF t \in Callers THEN "idle" ELSE "unborn"]
    /\ p_data = [t \in ProxyTasks |-> <<>>]
    /\ p_result = [c \in Callers |-> "pending"]

\* where a task is once its refresh_proxies has returned: a caller is back in
\* get_proxy at line 93, a task that ran refresh_proxies alone has ended
AfterRefresh(t) == IF t \in Callers THEN "refreshed" ELSE "ended"

\* manager.py:39-46: initialize sets the session and awaits refresh_proxies,
\* which sends the API request (line 64)
initialize ==
    /\ ~session
    /\ session' = TRUE
    /\ p_pc' = [p_pc EXCEPT ![NumCallers + 1] = "api"]
    /\ UNCHANGED <<proxies, lock, p_data, p_result>>
    /\ UNCHANGED otherThanProxy

\* manager.py:84-90: a task calls get_proxy and reaches `async with self.lock`
get_proxy_call(c) ==
    /\ p_pc[c] = "idle"
    /\ p_pc' = [p_pc EXCEPT ![c] = "acquire"]
    /\ UNCHANGED <<session, proxies, lock, p_data, p_result>>
    /\ UNCHANGED otherThanProxy

\* manager.py:90: the lock is free and the caller takes it
get_proxy_acquire(c) ==
    /\ p_pc[c] = "acquire" /\ lock = 0
    /\ lock' = c
    /\ p_pc' = [p_pc EXCEPT ![c] = "locked"]
    /\ UNCHANGED <<session, proxies, p_data, p_result>>
    /\ UNCHANGED otherThanProxy

\* manager.py:96-104: a proxy is picked and removed, a refresh task is created
\* when at most one is left, the proxy is returned and the lock freed
get_proxy_take(c) ==
    \E i \in 1..Len(proxies) :
       /\ proxies' = RemoveAt(proxies, i)
       /\ p_result' = [p_result EXCEPT ![c] = "proxy"]
       /\ lock' = 0
       /\ IF Len(proxies') <= 1
          THEN \E r \in Refreshers :
                  /\ p_pc[r] = "unborn"
                  /\ \A q \in Refreshers : q < r => p_pc[q] # "unborn"
                  /\ p_pc' = [p_pc EXCEPT ![c] = "returned",
                                          ![r] = IF session THEN "api" ELSE "ended"]
          ELSE p_pc' = [p_pc EXCEPT ![c] = "returned"]
       /\ UNCHANGED <<session, p_data>>

\* manager.py:93-94: `return None` leaves the `async with` and frees the lock
get_proxy_none(c) ==
    /\ p_result' = [p_result EXCEPT ![c] = "None"]
    /\ lock' = 0
    /\ p_pc' = [p_pc EXCEPT ![c] = "returned"]
    /\ UNCHANGED <<session, proxies, p_data>>

\* manager.py:91-92, 54-64: holding the lock, get_proxy finds the pool empty
\* and awaits refresh_proxies, which returns False at once without a session
\* and sends the API request otherwise; a pool that is not empty serves the
\* caller at once
get_proxy_locked(c) ==
    /\ p_pc[c] = "locked"
    /\ IF proxies = <<>>
       THEN /\ p_pc' = [p_pc EXCEPT ![c] = IF session THEN "api" ELSE "refreshed"]
            /\ UNCHANGED <<session, proxies, lock, p_data, p_result>>
       ELSE get_proxy_take(c)
    /\ UNCHANGED otherThanProxy

\* manager.py:64-75, 80-82: the API call completes.  A failure makes
\* refresh_proxies return False; a valid answer takes it to
\* `async with self.lock` (line 75)
refresh_proxies_answer(t, answer) ==
    /\ p_pc[t] = "api"
    /\ IF ~answer.ok
       THEN /\ p_pc' = [p_pc EXCEPT ![t] = AfterRefresh(t)]
            /\ UNCHANGED p_data
       ELSE /\ p_pc' = [p_pc EXCEPT ![t] = "refresh_lock"]
            /\ p_data' = [p_data EXCEPT ![t] = answer.proxies]
    /\ UNCHANGED <<session, proxies, lock, p_result>>
    /\ UNCHANGED otherThanProxy

\* manager.py:75: asyncio.Lock.acquire goes through only when nobody holds it
LockFreeFor(t) == lock = 0

\* manager.py:75-78: refresh_proxies gets the lock, replaces the pool and
\* returns True; nothing is awaited inside the block, so the lock is free
\* again at the end of the step
refresh_proxies_store(t) ==
    /\ p_pc[t] = "refresh_lock" /\ LockFreeFor(t)
    /\ proxies' = p_data[t]
    /\ p_pc' = [p_pc EXCEPT ![t] = AfterRefresh(t)]
    /\ UNCHANGED <<session, lock, p_data, p_result>>
    /\ UNCHANGED otherThanProxy

\* manager.py:93-104: back from refresh_proxies, get_proxy returns None when
\* the pool is still empty and serves the caller otherwise
get_proxy_refreshed(c) ==
    /\ p_pc[c] = "refreshed"
    /\ IF proxies = <<>> THEN get_proxy_none(c) ELSE get_proxy_take(c)
    /\ UNCHANGED otherThanProxy

\* tasks waiting at an `async with self.lock`
WaitingForLock == {t \in ProxyTasks : p_pc[t] \in {"acquire", "refresh_lock"}}

\* C38: get_proxy always terminates: once the proxy API call has completed,
\* with or without success, every caller of get_proxy gets a proxy or None,
\* also when the pool was empty and had to be refreshed, and no task waits
\* for ProxyManager.lock for ever.
GetProxyAlwaysTerminates ==
    /\ \A c \in Callers : (p_pc[c] = "acquire") ~> (p_pc[c] = "returned")
    /\ \A t \in ProxyTasks : (t \in WaitingForLock) ~> (t \notin WaitingForLock)

(***************************************************************************)
(* Specifications.  Each one runs one component and parks the others.      *)
(***************************************************************************)
ParkSplit ==
    /\ text = <<>> /\ max_length = 1 /\ preserve_words = TRUE
    /\ chunks = <<>> /\ split_pc = "parked" /\ chunk_count = 0

ParkQueue ==
    /\ queue = <<>> /\ putters = <<>> /\ woken = {} /\ unfinished = 0
    /\ h_pc = <<>> /\ h_resp = <<>> /\ response_future = <<>>
    /\ w_pc = "parked" /\ w_task = None /\ current_task = None
    /\ processing_lock = FALSE /\ admitted = <<>>
    /\ status_resp = [queue_size |-> 0 - 1, max_queue_size |-> 0]

ParkClient ==
    /\ c_kind = "parked" /\ max_retries = 0 /\ c_pc = "parked" /\ c_attempt = 0
    /\ c_adapter_left = 0 /\ c_posts = 0 /\ c_calls = 0 /\ c_failures = 0
    /\ c_last = "none" /\ c_result = "none" /\ c_generation = 0 /\ c_tokens = <<>>

ParkTask ==
    /\ t_pc = "parked" /\ retry_count = 0 /\ t_calls = 0
    /\ t_last = "none" /\ t_result = "none" /\ t_rate_limited = FALSE

ParkBatch ==
    /\ b_kind = "parked" /\ b_n = 0 /\ b_plan = <<>> /\ b_status = <<>>
    /\ b_order = <<>> /\ b_sem = 0 /\ b_pc = "parked" /\ b_outcome = "none"
    /\ b_responses = <<>> /\ b_raised = 0

ParkStream ==
    /\ s_data = <<>> /\ s_pc = "parked" /\ s_connected = FALSE /\ s_chunks = <<>>
    /\ s_i = 0 /\ s_failures = 0 /\ s_failed = {} /\ s_events = <<>>

ParkAudio ==
    /\ a_chunks = <<>> /\ a_fmt = "parked" /\ a_pydub = FALSE /\ a_codec = "none"
    /\ a_via = "parked" /\ a_pc = "parked" /\ a_raised = "none" /\ a_result = <<>>
    /\ a_decoded = 0 /\ a_count = 0

ParkSession == request_count = 0 /\ background_tasks = <<>>

ParkProxy ==
    /\ session = FALSE /\ proxies = <<>> /\ lock = 0
    /\ p_pc = <<>> /\ p_data = <<>> /\ p_result = <<>>

InitSplit == SplitInputs /\ ParkQueue /\ ParkClient /\ ParkTask /\ ParkBatch /\ ParkStream
    /\ ParkAudio /\ ParkSession /\ ParkProxy

NextSplit == SplitCall

SpecSplit == InitSplit /\ [][NextSplit]_vars

InitSplitLong ==
    LongInputs /\ ParkQueue /\ ParkClient /\ ParkTask /\ ParkBatch /\ ParkStream
    /\ ParkAudio /\ ParkSession /\ ParkProxy

NextSplitLong ==
    \/ SplitCall
    \/ generate_speech_long_text_call

SpecSplitLong == InitSplitLong /\ [][NextSplitLong]_vars

InitQueue == QueueStart /\ ParkSplit /\ ParkClient /\ ParkTask /\ ParkBatch /\ ParkStream
    /\ ParkAudio /\ ParkSession /\ ParkProxy

NextQueue ==
    \/ \E h \in Requests, rate_limited \in BOOLEAN :
           handle_openai_speech_check(h, rate_limited)
    \/ \E h \in Requests, body \in {"ok", "missing", "bad_json"} :
           handle_openai_speech_enqueue(h, body)
    \/ \E h \in Requests : queue_put_resume(h)
    \/ \E h \in Requests : handle_openai_speech_respond(h)
    \/ \E must_sleep \in BOOLEAN : process_queue_get(must_sleep)
    \/ process_queue_wake
    \/ \E outcome \in {"result", "exception"} : process_queue_finish(outcome)
    \/ handle_queue_size

SpecQueue == InitQueue /\ [][NextQueue]_vars

InitClient == ClientStart /\ ParkSplit /\ ParkQueue /\ ParkTask /\ ParkBatch /\ ParkStream
    /\ ParkAudio /\ ParkSession /\ ParkProxy

NextClient ==
    \E answer \in Answers, json_body \in BOOLEAN : _make_request_call(answer, json_body)

SpecClient == InitClient /\ [][NextClient]_vars

InitTask == TaskStart /\ ParkSplit /\ ParkQueue /\ ParkClient /\ ParkBatch /\ ParkStream
    /\ ParkAudio /\ ParkSession /\ ParkProxy

NextTask ==
    \/ process_tts_request_send
    \/ \E answer \in TaskAnswers : process_tts_request_answer(answer)

SpecTask == InitTask /\ [][NextTask]_vars

InitBatch == BatchStart /\ ParkSplit /\ ParkQueue /\ ParkClient /\ ParkTask /\ ParkStream
    /\ ParkAudio /\ ParkSession /\ ParkProxy

NextBatch ==
    \/ sync_generate_speech_batch_step
    \/ \E i \in Indices : async_make_request_acquire(i)
    \/ \E i \in Indices : async_make_request_finish(i)
    \/ async_generate_speech_batch_return

SpecBatch == InitBatch /\ [][NextBatch]_vars

InitStream ==
    StreamStart /\ ParkSplit /\ ParkQueue /\ ParkClient /\ ParkTask /\ ParkBatch
    /\ ParkAudio /\ ParkSession /\ ParkProxy

NextStream ==
    \/ handle_generate_stream
    \/ handle_disconnect
    \/ handle_cancel_stream
    \/ _generate_stream_begin
    \/ _generate_stream_next
    \/ \E ok \in BOOLEAN : _generate_stream_chunk(ok)
    \/ _generate_stream_no_chunks

SpecStream == InitStream /\ [][NextStream]_vars

InitAudio ==
    AudioStart /\ ParkSplit /\ ParkQueue /\ ParkClient /\ ParkTask /\ ParkBatch
    /\ ParkStream /\ ParkSession /\ ParkProxy

NextAudio ==
    \/ combine_audio_chunks_call
    \/ combine_responses_call

SpecAudio == InitAudio /\ [][NextAudio]_vars

\* the event loop keeps running the worker's task: a provider call that can
\* be made is eventually made and answered
SpecTaskFair == SpecTask /\ WF_vars(NextTask)

InitSession ==
    SessionStart /\ ParkSplit /\ ParkQueue /\ ParkClient /\ ParkTask /\ ParkBatch
    /\ ParkStream /\ ParkAudio /\ ParkProxy

NextSession ==
    \/ \E request_id \in RequestIds, total_chunks \in 1..MaxSessionChunks :
          session_generate_stream(request_id, total_chunks)
    \/ \E k \in 1..MaxStreams : session_stream_chunk(k)

SpecSession == InitSession /\ [][NextSession]_vars

InitProxy ==
    ProxyStart /\ ParkSplit /\ ParkQueue /\ ParkClient /\ ParkTask /\ ParkBatch
    /\ ParkStream /\ ParkAudio /\ ParkSession

NextProxy ==
    \/ initialize
    \/ \E c \in Callers : get_proxy_call(c)
    \/ \E c \in Callers : get_proxy_acquire(c)
    \/ \E c \in Callers : get_proxy_locked(c)
    \/ \E t \in ProxyTasks, answer \in ApiAnswers : refresh_proxies_answer(t, answer)
    \/ \E t \in ProxyTasks : refresh_proxies_store(t)
    \/ \E c \in Callers : get_proxy_refreshed(c)

SpecProxy == InitProxy /\ [][NextProxy]_vars

\* the event loop runs every task that can take a step, and every API call
\* completes
SpecProxyFair == SpecProxy /\ WF_vars(NextProxy)

====
